---- MODULE Spec2Model ----
(***************************************************************************)
(* Model of the legal RAG backend.                                         *)
(* Ingestion:                                                              *)
(*   - flask_server/app.py: upload_document, process_document_background,  *)
(*     get_task_status, delete_task and the background_tasks table;        *)
(*   - document_processing/document_processor.py: process_document;        *)
(*   - vector_db/vector_database.py: index_document_chunks and             *)
(*     delete_document on the Pinecone index.                              *)
(* Answering:                                                              *)
(*   - chatbot/langchain_rag_chatbot.py: ask, ask_streaming, the           *)
(*     conversation history, prompt selection, the confidence score;       *)
(*   - flask_server/app.py: chat_stream and its generator generate_stream; *)
(*   - rag_system/advanced_rag_system.py: HybridSearchEngine.search and    *)
(*     ContextWindowManager.build_context_window.                          *)
(* Other components, each under a specification of its own:                *)
(*   - chatbot/langchain_rag_chatbot.py: _determine_prompt_type on the     *)
(*     text of a question, _check_outdated_information;                    *)
(*   - flask_server/app.py: an upload from its form to the metadata of     *)
(*     its vectors, list_tasks;                                            *)
(*   - rag_system/advanced_rag_system.py: LegalQueryEnhancer.expand_query; *)
(*   - document_processing/document_processor.py: the DocumentProcessor    *)
(*     singleton, _detect_document_type;                                   *)
(*   - document_processing/document_chunker.py: _chunk_case_law;           *)
(*   - cross_reference_system.py: find_cross_references,                   *)
(*     get_related_documents, saving and loading cross_references.json.    *)
(*                                                                         *)
(* Granularity.  Every Python statement that touches shared state (the     *)
(* task table, a task record, the temporary file, the vector index) is one *)
(* step; work on thread-local data is folded into the next such step.      *)
(* `background_tasks[task_id][f] = v' is one step: the lookup raises       *)
(* KeyError when the id is not a key of the table.                         *)
(***************************************************************************)
EXTENDS Integers, FiniteSets, Sequences, TLC

\* ------------------------------------------------------------------ bounds
NumTasks == 2
NumDocs == 2
MaxBatches == 2
NumAskers == 2
MaxAnswers == 12
NumChunks == 3
MaxQueryTerms == 1
MaxResults == 2
MaxChunks == 2
MaxChars == 2
MaxWords == 3
MaxLines == 3
chunk_size == 1
chunk_overlap == 2

\* -------------------------------------------------------- program constants
batch_size == 100
history_limit == 10
history_in_prompt == 6
max_context_length == 4000
synonyms_per_term == 2
max_expanded_terms == 5
threshold == 30
max_results == 10

Tasks == 1..NumTasks
Docs == 1..NumDocs
Askers == 1..NumAskers

\* Chunk counts a direct caller of index_document_chunks passes: one chunk,
\* and one more than each whole number of upsert batches.
ChunkCounts == {1} \cup {k * batch_size + 1 : k \in 1..(MaxBatches - 1)}

\* Chunk counts the chunker gives a worker: none, or two upsert batches.
TaskChunkCounts == {0, batch_size + 1}

None == "None"
NoResult == {}

VARIABLES
    background_tasks,   \* keys of the task table (app.py:58)
    rec,                \* the record object (dict) created for each task id
    tempfile,           \* task ids whose temporary upload file exists on disk
    pc,                 \* position of each task's worker thread
    exc,                \* exception the worker is handling ("None" if none)
    result,             \* what process_document returned to the worker
    call,               \* index_document_chunks call in progress, per caller
    index,              \* the vectors held by the Pinecone index
    rd,                 \* the in-flight GET /api/tasks/<id> request
    latest,             \* per document id, the last completed indexing call
    conversation_history, \* the chatbot's history list (langchain_rag_chatbot.py:112)
    answered,           \* how many exchanges have been appended to the history
    ask,                \* each request thread's position in ask() and its locals
    stream,             \* one streaming request: ask_streaming under generate_stream
    search_in,          \* arguments and collaborator results of one hybrid search
    search_out,         \* what that search returned
    rag_response,       \* the retrieval summary a confidence score is computed from
    confidence_score,   \* the score computed from it
    primary_results,    \* the ranked results a context window is built from
    context_window      \* the context window built from them

ingestVars == <<background_tasks, rec, tempfile, pc, exc, result, call, index, rd, latest>>
askVars == <<conversation_history, answered, ask>>
pureVars == <<search_in, search_out, rag_response, confidence_score,
              primary_results, context_window>>
\* -------------------------------------------- state of the other components
\* langchain_rag_chatbot.py:244-259 -- one choice of a prompt template
VARIABLES
    prompt_in,          \* the question asked and the history it is asked with
    prompt_out         \* the template _determine_prompt_type chose

promptVars == <<prompt_in, prompt_out>>

\* langchain_rag_chatbot.py:453-475 -- one check for outdated information
VARIABLES
    outdated_in,        \* rag_response['search_results'] and datetime.now().year
    outdated_out       \* what _check_outdated_information returned

outdatedVars == <<outdated_in, outdated_out>>

\* app.py:304-378, 120-175 -- one upload, from the form to the vectors
VARIABLES
    submitted,          \* request.files['file'].filename and request.form of the upload
    task,               \* the task's record, its temporary file and the worker's metadata argument
    vectors            \* the vectors upserted for the task

submitVars == <<submitted, task, vectors>>

\* advanced_rag_system.py:155-201 -- a query enhanced, and enhanced again
VARIABLES
    query,              \* the query given to expand_query, a sequence of words
    enhanced           \* the enhanced queries: of query, then of the one before

enhanceVars == <<query, enhanced>>

\* document_processor.py:371-391 -- one detection of a document's type
VARIABLES
    text_content,       \* the text given to _detect_document_type, a sequence of words
    detected           \* the document type it returned

detectVars == <<text_content, detected>>

\* document_chunker.py:174-268 -- one run of the case-law chunker
VARIABLES
    lines,              \* text_content.split('\n'): each line a sequence of sentences
    line_no,            \* the lines the loop has been through
    current_chunk,      \* the text of the chunk being built
    current_metadata,   \* the metadata dict of the chunk being built: its lists
    lists,              \* the list objects the metadata dicts hold
    chunks,             \* the chunks emitted so far
    returned           \* whether _chunk_case_law has returned

chunkVars == <<lines, line_no, current_chunk, current_metadata, lists, chunks, returned>>

\* cross_reference_system.py:36-83, 219-299, 436-455 -- the cross-reference system
VARIABLES
    cross_references,   \* self.cross_references: per document id, the ids related to it
    relationship_graph,  \* self.relationship_graph: per document id, per related id, the similarity
    related,            \* what the last get_related_documents returned, and for which id
    storage,            \* the file cross_references.json
    fresh              \* a CrossReferenceSystem constructed later

xrefVars == <<cross_references, relationship_graph, related, storage, fresh>>

\* document_processor.py:64-145 -- the DocumentProcessor class and its instance
VARIABLES
    processor,          \* cls._instance and its attributes
    constructed,        \* the arguments of the last DocumentProcessor(...) call
    directories        \* the directories on disk

processorVars == <<processor, constructed, directories>>

\* app.py:592-615 -- a GET /api/tasks request
VARIABLES
    listing            \* the list_tasks request being served: its position, its dict iterator and its task_list

listVars == <<listing>>

libVars == <<promptVars, outdatedVars, submitVars, enhanceVars, detectVars, chunkVars, xrefVars, processorVars, listVars>>

\* everything but promptVars
besidesPrompt == <<ingestVars, askVars, stream, pureVars, outdatedVars, submitVars, enhanceVars, detectVars, chunkVars, xrefVars, processorVars, listVars>>

\* everything but outdatedVars
besidesOutdated == <<ingestVars, askVars, stream, pureVars, promptVars, submitVars, enhanceVars, detectVars, chunkVars, xrefVars, processorVars, listVars>>

\* everything but submitVars
besidesSubmit == <<ingestVars, askVars, stream, pureVars, promptVars, outdatedVars, enhanceVars, detectVars, chunkVars, xrefVars, processorVars, listVars>>

\* everything but enhanceVars
besidesEnhance == <<ingestVars, askVars, stream, pureVars, promptVars, outdatedVars, submitVars, detectVars, chunkVars, xrefVars, processorVars, listVars>>

\* everything but detectVars
besidesDetect == <<ingestVars, askVars, stream, pureVars, promptVars, outdatedVars, submitVars, enhanceVars, chunkVars, xrefVars, processorVars, listVars>>

\* everything but chunkVars
besidesChunk == <<ingestVars, askVars, stream, pureVars, promptVars, outdatedVars, submitVars, enhanceVars, detectVars, xrefVars, processorVars, listVars>>

\* everything but xrefVars
besidesXref == <<ingestVars, askVars, stream, pureVars, promptVars, outdatedVars, submitVars, enhanceVars, detectVars, chunkVars, processorVars, listVars>>

\* everything but processorVars
besidesProcessor == <<ingestVars, askVars, stream, pureVars, promptVars, outdatedVars, submitVars, enhanceVars, detectVars, chunkVars, xrefVars, listVars>>

\* everything but listVars
besidesList == <<ingestVars, askVars, stream, pureVars, promptVars, outdatedVars, submitVars, enhanceVars, detectVars, chunkVars, xrefVars, processorVars>>

\* ------------------------------------------------------------ all variables
queryVars == <<askVars, stream, pureVars, libVars>>

vars == <<ingestVars, queryVars>>

\* ------------------------------------------------------------ task records
NoRec == [status |-> "absent", progress |-> 0, message |-> None,
          result |-> NoResult, error |-> None]

\* app.py:342-349
NewRec == [status |-> "uploaded", progress |-> 0, message |-> "uploaded",
           result |-> NoResult, error |-> None]

NoCall == [doc |-> 0, n |-> 0, pos |-> 0, fresh |-> TRUE]
NoProcessResult == [returned |-> FALSE, chunk_count |-> 0, indexed |-> "skipped"]

RdIdle == [task |-> 0, pc |-> "idle", status |-> None, progress |-> 0,
           message |-> None, result |-> NoResult, error |-> None]

\* Callers of index_document_chunks: each task's worker, and caller 0, which
\* stands for a direct call (reindex_documents.py:73, process_pdfs.py:106).
DirectCaller == 0
Callers == Tasks \cup {DirectCaller}

\* document_processor.py:189 -- the id is built from the temporary file's stem,
\* which starts with the task id (app.py:338), so each task has its own id.
DocOf(t) == t

AllDocs == Docs \cup {DocOf(t) : t \in Tasks}

NeverIndexed == [n |-> 0, state |-> "never", clean |-> TRUE]

InitIngest ==
    /\ background_tasks = {}
    /\ rec = [t \in Tasks |-> NoRec]
    /\ tempfile = {}
    /\ pc = [t \in Tasks |-> "none"]
    /\ exc = [t \in Tasks |-> None]
    /\ result = [t \in Tasks |-> NoProcessResult]
    /\ call = [c \in Callers |-> NoCall]
    /\ index = {}
    /\ rd = RdIdle
    /\ latest = [d \in AllDocs |-> NeverIndexed]

\* ------------------------------------------------- the chatbot's state
\* A request thread that is not inside ask(): no locals, no response yet.
NoResponse == [prompt_type |-> None, answer |-> <<>>, confidence_score |-> 0,
               low_confidence_warning |-> FALSE, error |-> None]

NoPrompt == [v \in {} |-> <<>>]

\* A question, as prompt selection sees it: whether it contains one of the
\* citation keywords, one of the follow-up keywords
\* (langchain_rag_chatbot.py:249, :254)
NoQuestion == [citation |-> FALSE, follow_up |-> FALSE]

AskIdle == [pc |-> "idle", question |-> NoQuestion, retrieval |-> None,
            chat_history |-> <<>>, prompt_type |-> None, prompt |-> NoPrompt,
            slice |-> <<>>, response |-> NoResponse]

\* langchain_rag_chatbot.py:112 -- the singleton chatbot starts with no history
InitAsk ==
    /\ conversation_history = <<>>
    /\ answered = 0
    /\ ask = [a \in Askers |-> AskIdle]

\* A streaming request (app.py:237-302): the generator generate_stream, which
\* the server iterates, and under it the generator ask_streaming.
\*   inner, outer -- where each generator is: "created" (not started), at one
\*                   of its yields, running between yields, "returned", or
\*                   "closed" (GeneratorExit left it);
\*   chunks       -- LLM chunks received so far;
\*   pending      -- characters of the current content chunk not yet sent;
\*   terminal     -- the complete or error chunk generate_stream is about to
\*                   serialise;
\*   yielded      -- the types of the events ask_streaming has yielded;
\*   sent         -- the types of the events generate_stream has yielded;
\*   closed       -- the client has gone and the server closed the stream.
NoStream == [inner |-> "none", outer |-> "none", chunks |-> 0, pending |-> 0,
             terminal |-> None, yielded |-> <<>>, sent |-> <<>>, closed |-> FALSE]

InitStream == stream = NoStream

\* ------------------------------------------------------------ scores
\* Numbers.  A relevance factor (a float in the code) is held in hundredths:
\* 80 is 0.8.  A final score, being a sum of factors times weights that are
\* themselves in hundredths, is in ten-thousandths: 10000 is 1.0.
Min(a, b) == IF a < b THEN a ELSE b
Max(a, b) == IF a < b THEN b ELSE a

\* advanced_rag_system.py:316-322
relevance_weights ==
    [semantic_score |-> 40, keyword_match |-> 30, jurisdiction_relevance |-> 15,
     law_status |-> 10, document_type |-> 5]

\* advanced_rag_system.py:428-434 -- the final weighted score of a result with
\* relevance factors f
final_score(f) ==
      f.semantic_score * relevance_weights.semantic_score
    + f.keyword_score * relevance_weights.keyword_match
    + f.jurisdiction_score * relevance_weights.jurisdiction_relevance
    + f.law_status_score * relevance_weights.law_status
    + f.document_type_score * relevance_weights.document_type

FinalOne == 100 * 100

\* dict.get(key, default)
Get(d, key, default) == IF key \in DOMAIN d THEN d[key] ELSE default

EmptyDict == [key \in {} |-> 0]

\* advanced_rag_system.py:585-594 -- the part of ask_question's response that
\* the confidence score reads; with no results the top score is 0.0 and the
\* breakdown is {} (:591, :607-608)
NoRagResponse == [top_score |-> 0, total_results |-> 0, relevance_breakdown |-> EmptyDict]

\* langchain_rag_chatbot.py:414-441 _calculate_confidence_score.  The factors
\* 1.1, 0.8, 1.05, 0.9 are 11/10, 8/10, 21/20, 9/10: the product is kept as
\* its numerator over the common denominator 10 * 20 * 20 * 10, so the result
\* is in units of 1 / (FinalOne * 10 * 20 * 20 * 10).
ConfidenceOne == FinalOne * 10 * 20 * 20 * 10

calculate_confidence_score(r) ==
    LET base == Min(r.top_score, FinalOne)
        count == IF r.total_results >= 5 THEN 11
                 ELSE IF r.total_results < 2 THEN 8 ELSE 10
        scores == r.relevance_breakdown
        semantic == IF Get(scores, "semantic_similarity", 0) > 80 THEN 21 ELSE 20
        keyword == IF Get(scores, "keyword_matching", 0) > 80 THEN 21 ELSE 20
        citation == IF Get(scores, "citation_relevance", 0) < 50 THEN 9 ELSE 10
    IN  Min(base * count * semantic * keyword * citation, ConfidenceOne)

\* langchain_rag_chatbot.py:115, :504 -- confidence_threshold = 0.7
low_confidence(score) == score < (ConfidenceOne \div 10) * 7

NoScore == [done |-> FALSE, value |-> 0]

\* ------------------------------------------------------- hybrid search
\* The chunks of a small corpus, by id, as the scoring functions see their
\* metadata: how the content matches (query-independent markers as counts),
\* and the chunk type.  Chunks 2 and 3 are two chunks with the same markers.
\*   federal    -- how many of the 5 federal indicators the content has (:489)
\*   current, superseded -- how many of each marker list it has (:502-503)
\*   has_terms  -- whether the content contains the query's terms (:473-475)
Chunk ==
    [c \in 1..NumChunks |->
        IF c = 1
          THEN [federal |-> 0, current |-> 0, superseded |-> 1,
                chunk_type |-> "general", has_terms |-> FALSE]
          ELSE [federal |-> 3, current |-> 1, superseded |-> 0,
                chunk_type |-> "case_law_section", has_terms |-> TRUE]]

ChunkIds == DOMAIN Chunk

\* A match as the index returns it (vector_database.py:320): id and raw cosine
\* score, in hundredths
Match(id, score) == [id |-> id, score |-> score]

\* advanced_rag_system.py:467-482 _calculate_keyword_score, for a query of n
\* whitespace-separated terms and no expanded terms: matches / len(query_terms)
\* capped at 1.0.  Only called with n > 0 here: see search.
calculate_keyword_score(n, metadata) ==
    LET matches == IF metadata.has_terms THEN n ELSE 0
    IN  Min((matches * 100) \div n, 100)

\* advanced_rag_system.py:484-495, target jurisdiction 'federal'
calculate_jurisdiction_score(metadata) == Max(50, (metadata.federal * 100) \div 5)

\* advanced_rag_system.py:497-513
calculate_law_status_score(metadata) ==
    IF metadata.superseded > metadata.current THEN 30
    ELSE IF metadata.current > metadata.superseded THEN 100
    ELSE 70

\* advanced_rag_system.py:515-527
calculate_document_type_score(metadata) ==
    CASE metadata.chunk_type = "case_law_section" -> 100
      [] metadata.chunk_type = "policy_section" -> 80
      [] metadata.chunk_type = "training_module" -> 60
      [] OTHER -> 50

\* advanced_rag_system.py:409-463 -- the SearchResult made of one match
ScoredResult(m, n) ==
    LET factors ==
            [semantic_score |-> m.score,
             keyword_score |-> calculate_keyword_score(n, Chunk[m.id]),
             jurisdiction_score |-> calculate_jurisdiction_score(Chunk[m.id]),
             law_status_score |-> calculate_law_status_score(Chunk[m.id]),
             document_type_score |-> calculate_document_type_score(Chunk[m.id])]
    IN  [id |-> m.id, score |-> final_score(factors), relevance_factors |-> factors]

\* advanced_rag_system.py:400-465 _apply_relevance_scoring
apply_relevance_scoring(results, n) ==
    [i \in 1..Len(results) |-> ScoredResult(results[i], n)]

\* combined[result.id] = result on a dict kept as the sequence of its values in
\* insertion order: an id already present keeps its place
DictPut(combined, r) ==
    IF \E i \in 1..Len(combined) : combined[i].id = r.id
      THEN [i \in 1..Len(combined) |-> IF combined[i].id = r.id THEN r ELSE combined[i]]
      ELSE Append(combined, r)

DictHas(combined, id) == \E i \in 1..Len(combined) : combined[i].id = id

DictAt(combined, id) == combined[CHOOSE i \in 1..Len(combined) : combined[i].id = id]

RECURSIVE AddSemantic(_, _)
\* advanced_rag_system.py:390-391
AddSemantic(combined, results) ==
    IF results = <<>> THEN combined
    ELSE AddSemantic(DictPut(combined, Head(results)), Tail(results))

RECURSIVE AddKeyword(_, _)
\* advanced_rag_system.py:394-396
AddKeyword(combined, results) ==
    IF results = <<>> THEN combined
    ELSE LET r == Head(results)
         IN  AddKeyword(IF ~DictHas(combined, r.id) \/ r.score > DictAt(combined, r.id).score
                          THEN DictPut(combined, r) ELSE combined,
                        Tail(results))

\* advanced_rag_system.py:384-398 _combine_results
combine_results(semantic_results, keyword_results) ==
    AddKeyword(AddSemantic(<<>>, semantic_results), keyword_results)

\* list.sort(key=lambda x: x.score, reverse=True) is stable: results with equal
\* scores keep the order they had.  One insertion of the next element x into
\* the sorted prefix: after every element whose score is not smaller.
InsertByScore(sorted, x) ==
    LET before == Cardinality({i \in 1..Len(sorted) : sorted[i].score >= x.score})
    IN  SubSeq(sorted, 1, before) \o <<x>> \o SubSeq(sorted, before + 1, Len(sorted))

RECURSIVE SortByScore(_)
SortByScore(results) ==
    IF results = <<>> THEN <<>>
    ELSE InsertByScore(SortByScore(SubSeq(results, 1, Len(results) - 1)),
                       results[Len(results)])

\* scored_results[:max_results]
Truncate(results, k) == SubSeq(results, 1, Min(k, Len(results)))

\* advanced_rag_system.py:324-358 HybridSearchEngine.search on the inputs q.
\* With results to score and a query of no terms, _calculate_keyword_score
\* divides by zero (:482) and the exception leaves search.
search_raises(q) ==
    q.query_terms = 0 /\ combine_results(q.semantic_results, q.keyword_results) # <<>>

search(q) ==
    Truncate(SortByScore(apply_relevance_scoring(
                 combine_results(q.semantic_results, q.keyword_results),
                 q.query_terms)),
             q.max_results)

NoSearch == [query_terms |-> 1, max_results |-> 1,
             semantic_results |-> <<>>, keyword_results |-> <<>>]

NoSearchOut == [done |-> FALSE, raised |-> FALSE, results |-> <<>>]

\* ------------------------------------------------------ context window
\* Text is held as its length in characters.  A ranked result here is its
\* content and its citation chain (a sequence of citation texts).
RECURSIVE Sum(_)
Sum(lengths) == IF lengths = <<>> THEN 0 ELSE Head(lengths) + Sum(Tail(lengths))

\* len(separator.join(parts))
JoinLen(parts, separator) ==
    IF parts = <<>> THEN 0 ELSE Sum(parts) + separator * (Len(parts) - 1)

RECURSIVE AddPrimary(_, _)
\* advanced_rag_system.py:272-282 -- the loop over the primary results, from
\* the state ctx = (context_parts, current_length)
AddPrimary(ctx, results) ==
    IF results = <<>> THEN ctx
    ELSE LET content == Head(results).content
             remaining == max_context_length - ctx.current_length
         IN  IF ctx.current_length + content <= max_context_length
               THEN AddPrimary([context_parts |-> Append(ctx.context_parts, content),
                                current_length |-> ctx.current_length + content],
                               Tail(results))
               ELSE IF remaining > 100
                 THEN [ctx EXCEPT !.context_parts = Append(@, remaining + Len("..."))]
                 ELSE ctx

RECURSIVE AllCitations(_)
\* advanced_rag_system.py:285-287
AllCitations(results) ==
    IF results = <<>> THEN <<>>
    ELSE Head(results).citation_chain \o AllCitations(Tail(results))

\* advanced_rag_system.py:296-305 _build_citation_context: "- " before each of
\* the first five citations, joined by newlines
build_citation_context(citations) ==
    LET first == SubSeq(citations, 1, Min(5, Len(citations)))
    IN  JoinLen([i \in 1..Len(first) |-> Len("- ") + first[i]], 1)

\* advanced_rag_system.py:262-294 build_context_window: the parts of the
\* context, to be joined by a blank line (two newlines)
build_context_window(results) ==
    LET ctx == AddPrimary([context_parts |-> <<>>, current_length |-> 0], results)
        citations == AllCitations(results)
        citation_context == build_citation_context(citations)
    IN  IF citations # <<>> /\ ctx.current_length + citation_context <= max_context_length
          THEN Append(ctx.context_parts, 2 + Len("Related Citations:") + 1 + citation_context)
          ELSE ctx.context_parts

NoContext == [done |-> FALSE, length |-> 0]

InitPure ==
    /\ search_in = NoSearch
    /\ search_out = NoSearchOut
    /\ rag_response = NoRagResponse
    /\ confidence_score = NoScore
    /\ primary_results = <<>>
    /\ context_window = NoContext

\* ------------------------------------- initial state of the other components
InitPromptIdle ==
    /\ prompt_in = [question |-> <<>>, history |-> <<>>]
    /\ prompt_out = [done |-> FALSE, prompt_type |-> "None"]

InitOutdatedIdle ==
    /\ outdated_in = [search_results |-> <<>>, current_year |-> 0]
    /\ outdated_out = [done |-> FALSE, outdated |-> FALSE]

InitSubmitIdle ==
    /\ submitted = [done |-> FALSE, filename |-> "None", form |-> [key \in {} |-> 0]]
    /\ task = [status |-> "absent", filepath |-> <<>>, metadata |-> [key \in {} |-> 0]]
    /\ vectors = <<>>

InitEnhanceIdle ==
    /\ query = <<>>
    /\ enhanced = <<>>

InitDetectIdle ==
    /\ text_content = <<>>
    /\ detected = [done |-> FALSE, document_type |-> "None"]

InitChunkIdle ==
    /\ lines = <<>>
    /\ line_no = 0
    /\ current_chunk = <<>>
    /\ current_metadata = 0
    /\ lists = <<>>
    /\ chunks = <<>>
    /\ returned = FALSE

InitXrefIdle ==
    /\ cross_references = [key \in {} |-> 0]
    /\ relationship_graph = [key \in {} |-> 0]
    /\ related = [document_id |-> 0, docs |-> <<>>]
    /\ storage = [exists |-> FALSE, complete |-> FALSE, cross_references |-> [key \in {} |-> 0], relationship_graph |-> [key \in {} |-> 0]]
    /\ fresh = [loaded |-> FALSE, cross_references |-> [key \in {} |-> 0], relationship_graph |-> [key \in {} |-> 0]]

InitProcessorIdle ==
    /\ processor = [instance |-> FALSE, initialized |-> FALSE, output_dir |-> "None", chunk_size |-> 0, use_vector_db |-> FALSE]
    /\ constructed = [done |-> FALSE, output_dir |-> "None", chunk_size |-> 0, use_vector_db |-> FALSE]
    /\ directories = {}

InitListIdle ==
    /\ listing = [pc |-> "idle", size |-> 0, last |-> 0, task_list |-> <<>>]

InitLib ==
    /\ InitPromptIdle
    /\ InitOutdatedIdle
    /\ InitSubmitIdle
    /\ InitEnhanceIdle
    /\ InitDetectIdle
    /\ InitChunkIdle
    /\ InitXrefIdle
    /\ InitProcessorIdle
    /\ InitListIdle

\* the initial state of everything but promptVars
InitBesidesPrompt ==
    /\ InitIngest /\ InitAsk /\ InitStream /\ InitPure
    /\ InitOutdatedIdle
    /\ InitSubmitIdle
    /\ InitEnhanceIdle
    /\ InitDetectIdle
    /\ InitChunkIdle
    /\ InitXrefIdle
    /\ InitProcessorIdle
    /\ InitListIdle

\* the initial state of everything but outdatedVars
InitBesidesOutdated ==
    /\ InitIngest /\ InitAsk /\ InitStream /\ InitPure
    /\ InitPromptIdle
    /\ InitSubmitIdle
    /\ InitEnhanceIdle
    /\ InitDetectIdle
    /\ InitChunkIdle
    /\ InitXrefIdle
    /\ InitProcessorIdle
    /\ InitListIdle

\* the initial state of everything but submitVars
InitBesidesSubmit ==
    /\ InitIngest /\ InitAsk /\ InitStream /\ InitPure
    /\ InitPromptIdle
    /\ InitOutdatedIdle
    /\ InitEnhanceIdle
    /\ InitDetectIdle
    /\ InitChunkIdle
    /\ InitXrefIdle
    /\ InitProcessorIdle
    /\ InitListIdle

\* the initial state of everything but enhanceVars
InitBesidesEnhance ==
    /\ InitIngest /\ InitAsk /\ InitStream /\ InitPure
    /\ InitPromptIdle
    /\ InitOutdatedIdle
    /\ InitSubmitIdle
    /\ InitDetectIdle
    /\ InitChunkIdle
    /\ InitXrefIdle
    /\ InitProcessorIdle
    /\ InitListIdle

\* the initial state of everything but detectVars
InitBesidesDetect ==
    /\ InitIngest /\ InitAsk /\ InitStream /\ InitPure
    /\ InitPromptIdle
    /\ InitOutdatedIdle
    /\ InitSubmitIdle
    /\ InitEnhanceIdle
    /\ InitChunkIdle
    /\ InitXrefIdle
    /\ InitProcessorIdle
    /\ InitListIdle

\* the initial state of everything but chunkVars
InitBesidesChunk ==
    /\ InitIngest /\ InitAsk /\ InitStream /\ InitPure
    /\ InitPromptIdle
    /\ InitOutdatedIdle
    /\ InitSubmitIdle
    /\ InitEnhanceIdle
    /\ InitDetectIdle
    /\ InitXrefIdle
    /\ InitProcessorIdle
    /\ InitListIdle

\* the initial state of everything but xrefVars
InitBesidesXref ==
    /\ InitIngest /\ InitAsk /\ InitStream /\ InitPure
    /\ InitPromptIdle
    /\ InitOutdatedIdle
    /\ InitSubmitIdle
    /\ InitEnhanceIdle
    /\ InitDetectIdle
    /\ InitChunkIdle
    /\ InitProcessorIdle
    /\ InitListIdle

\* the initial state of everything but processorVars
InitBesidesProcessor ==
    /\ InitIngest /\ InitAsk /\ InitStream /\ InitPure
    /\ InitPromptIdle
    /\ InitOutdatedIdle
    /\ InitSubmitIdle
    /\ InitEnhanceIdle
    /\ InitDetectIdle
    /\ InitChunkIdle
    /\ InitXrefIdle
    /\ InitListIdle

\* the initial state of everything but listVars
InitBesidesList ==
    /\ InitIngest /\ InitAsk /\ InitStream /\ InitPure
    /\ InitPromptIdle
    /\ InitOutdatedIdle
    /\ InitSubmitIdle
    /\ InitEnhanceIdle
    /\ InitDetectIdle
    /\ InitChunkIdle
    /\ InitXrefIdle
    /\ InitProcessorIdle

\* ------------------------------------------------------------ initial state
Init == InitIngest /\ InitAsk /\ InitStream /\ InitPure /\ InitLib

\* --------------------------------------------------------------- the index
\* vector_database.py:185-268 -- the vector built for chunk i of n
Vector(doc, i, n) == [document_id |-> doc, chunk_index |-> i, total_chunks |-> n]

VecId(v) == <<v.document_id, v.chunk_index>>

\* vector_database.py:272-274 -- the batch starting at vectors[pos]
Batch(doc, n, pos) ==
    {Vector(doc, i, n) : i \in pos..(IF pos + batch_size < n THEN pos + batch_size ELSE n) - 1}

\* Pinecone upsert: a vector replaces the one stored under the same id
Upsert(ix, batch) ==
    LET ids == {VecId(b) : b \in batch}
    IN  {v \in ix : VecId(v) \notin ids} \cup batch

\* vector_database.py:438 -- delete by metadata filter document_id == doc
DeleteByFilter(ix, doc) == {v \in ix : v.document_id # doc}

VectorsOf(doc) == {v \in index : v.document_id = doc}

\* ------------------------------------------------------------- upload
\* app.py:304-378 upload_document: a fresh uuid4 task id, the file saved under
\* uploads/, the record created, then the worker thread started.
upload_document(t) ==
    /\ pc[t] = "none"
    /\ \A u \in Tasks : u < t => pc[u] # "none"
    /\ tempfile' = tempfile \cup {t}
    /\ background_tasks' = background_tasks \cup {t}
    /\ rec' = [rec EXCEPT ![t] = NewRec]
    /\ pc' = [pc EXCEPT ![t] = "l128"]
    /\ UNCHANGED <<exc, result, call, index, rd, latest, queryVars>>

\* --------------------------------------------------- the worker's writes
\* app.py:144-150 -- the result summary stored in the record
Summary(r) == {[chunks_created |-> r.chunk_count, vector_db_id |-> r.indexed = "ok"]}

\* app.py:128-165 -- the assignments `background_tasks[task_id][field] = value',
\* by line: the field written, the value, and the line executed next.
Stmt(p, t) ==
    CASE p = "l128" -> [field |-> "status",   value |-> "processing", next |-> "l129"]
      [] p = "l129" -> [field |-> "progress", value |-> 10,           next |-> "l130"]
      [] p = "l130" -> [field |-> "message",  value |-> "starting",   next |-> "l133"]
      [] p = "l141" -> [field |-> "status",   value |-> "completed",  next |-> "l142"]
      [] p = "l142" -> [field |-> "progress", value |-> 100,          next |-> "l143"]
      [] p = "l143" -> [field |-> "message",  value |-> "processed",  next |-> "l144"]
      [] p = "l144" -> [field |-> "result",   value |-> Summary(result[t]), next |-> "l171"]
      [] p = "l154" -> [field |-> "status",   value |-> "failed",     next |-> "l155"]
      [] p = "l155" -> [field |-> "progress", value |-> 0,            next |-> "l156"]
      [] p = "l156" -> [field |-> "message",  value |-> "invalid",    next |-> "l157"]
      [] p = "l157" -> [field |-> "error",    value |-> "Invalid result format", next |-> "l171"]
      [] p = "l162" -> [field |-> "status",   value |-> "failed",     next |-> "l163"]
      [] p = "l163" -> [field |-> "progress", value |-> 0,            next |-> "l164"]
      [] p = "l164" -> [field |-> "message",  value |-> "error",      next |-> "l165"]
      [] p = "l165" -> [field |-> "error",    value |-> exc[t],       next |-> "l171"]

TryPcs == {"l128", "l129", "l130", "l141", "l142", "l143", "l144",
           "l154", "l155", "l156", "l157"}
HandlerPcs == {"l162", "l163", "l164", "l165"}
WritePcs == TryPcs \cup HandlerPcs

\* Mutant of Raises: building the result summary (app.py:144-150) raises too.
RaisesBuildingResult(p, t) == t \notin background_tasks \/ p = "l144"

\* Mutant of Raises: the worker writes through a reference it took when it
\* started, so no write raises.
RaisesNever(p, t) == FALSE

\* The statement at p raises: the subscript background_tasks[task_id] raises
\* KeyError when delete_task has popped the id; nothing else in these
\* assignments can raise.
Raises(p, t) == t \notin background_tasks

\* Mutant of RaiseTarget: the cleanup follows the try statement instead of
\* being its finally clause, so an exception leaving the handler skips it.
RaiseTargetNoFinally(p) == IF p \in HandlerPcs THEN "done" ELSE "l162"

\* Where control goes when the statement at p raises: from the try body to the
\* except clause (app.py:160), from the except clause out through finally.
RaiseTarget(p) == IF p \in HandlerPcs THEN "l171" ELSE "l162"

\* Mutant of WorkerWrite: the worker writes with
\* background_tasks.setdefault(task_id, {}), which makes a record for an id
\* that is no longer in the table.
WorkerWriteSetDefault(t) ==
    /\ pc[t] \in WritePcs
    /\ background_tasks' = background_tasks \cup {t}
    /\ rec' = [rec EXCEPT ![t][Stmt(pc[t], t).field] = Stmt(pc[t], t).value]
    /\ pc' = [pc EXCEPT ![t] = Stmt(pc[t], t).next]
    /\ UNCHANGED <<exc, tempfile, result, call, index, rd, latest, queryVars>>

WorkerWrite(t) ==
    /\ pc[t] \in WritePcs
    /\ IF Raises(pc[t], t)
         THEN /\ pc' = [pc EXCEPT ![t] = RaiseTarget(pc[t])]
              /\ exc' = [exc EXCEPT ![t] = "KeyError"]
              /\ UNCHANGED rec
         ELSE /\ rec' = [rec EXCEPT ![t][Stmt(pc[t], t).field] = Stmt(pc[t], t).value]
              /\ pc' = [pc EXCEPT ![t] = Stmt(pc[t], t).next]
              /\ UNCHANGED exc
    /\ UNCHANGED <<background_tasks, tempfile, result, call, index, rd, latest, queryVars>>

\* app.py:139 -- `if result and 'chunk_count' in result': the line executed
\* after process_document returned r
AfterProcess(r) == IF r.returned /\ r.chunk_count >= 0 THEN "l141" ELSE "l154"

\* What an index_document_chunks call leaves behind for its document: its
\* chunk count, how it ended, and whether every call for the document has
\* succeeded since the index last held none of its vectors.
Ended(k, how) ==
    [n |-> k.n, state |-> how,
     clean |-> how = "ok" /\ (k.fresh \/ latest[k.doc].clean)]

\* vector_database.py:167-268 -- index_document_chunks(chunks, document_id)
\* through its embedding loop, for n chunks
BeginCall(doc, n) == [doc |-> doc, n |-> n, pos |-> 0, fresh |-> VectorsOf(doc) = {}]

\* document_processor.py:147-205 process_document, up to the call of
\* index_document_chunks and through that call's embedding loop
\* (vector_database.py:185-268).  The inputs are what the collaborators do:
\*   text   -- _extract_text raised inside and returned "" ("failed",
\*             document_processor.py:237-239), returned "" ("empty"), or
\*             returned text ("text");
\*   n      -- how many chunks the chunker made of the text (none of "");
\*   saved  -- _save_processed_document wrote its JSON file, or raised;
\*   embed  -- create_embeddings worked for every chunk, or raised.
process_document(t) ==
    /\ pc[t] = "l133"
    /\ \E text \in {"failed", "empty", "text"}, n \in TaskChunkCounts,
          saved \in BOOLEAN, embed \in BOOLEAN :
        /\ text # "text" => n = 0
        /\ ~saved => (text = "text" /\ n = 0 /\ embed)
        /\ ~embed => n > 0
        /\ IF t \notin tempfile \/ ~saved
             THEN \* document_processor.py:151 or :185 raises; app.py:160 catches
                  /\ pc' = [pc EXCEPT ![t] = "l162"]
                  /\ exc' = [exc EXCEPT ![t] = "IOError"]
                  /\ UNCHANGED <<result, call, latest>>
             ELSE IF n = 0
             THEN \* document_processor.py:188 -- no chunks, the index is skipped
                  /\ result' = [result EXCEPT ![t] =
                        [returned |-> TRUE, chunk_count |-> 0, indexed |-> "skipped"]]
                  /\ pc' = [pc EXCEPT ![t] = AfterProcess(result'[t])]
                  /\ UNCHANGED <<exc, call, latest>>
             ELSE IF ~embed
             THEN \* vector_database.py:279-281 -- caught, False returned
                  /\ result' = [result EXCEPT ![t] =
                        [returned |-> TRUE, chunk_count |-> n, indexed |-> "failed"]]
                  /\ pc' = [pc EXCEPT ![t] = AfterProcess(result'[t])]
                  /\ latest' = [latest EXCEPT ![DocOf(t)] =
                                    Ended(BeginCall(DocOf(t), n), "failed")]
                  /\ UNCHANGED <<exc, call>>
             ELSE \* the vectors are ready: on to the upsert loop
                  /\ call' = [call EXCEPT ![t] = BeginCall(DocOf(t), n)]
                  /\ pc' = [pc EXCEPT ![t] = "l274"]
                  /\ UNCHANGED <<exc, result, latest>>
    /\ UNCHANGED <<background_tasks, rec, tempfile, index, rd, queryVars>>

\* vector_database.py:272-281 -- one turn of the upsert loop of caller c:
\* index.upsert writes the batch, or raises and the call returns False.
\* When the loop ends the call returns True (:277) and, for a worker,
\* process_document returns (document_processor.py:199-205).
upsert_batch(c) ==
    /\ call[c] # NoCall
    /\ c \in Tasks => pc[c] = "l274"
    /\ \E ok \in BOOLEAN :
        LET k == call[c]
            more == ok /\ k.pos + batch_size < k.n
            ret == IF ok THEN "ok" ELSE "failed"
        IN  /\ index' = IF ok THEN Upsert(index, Batch(k.doc, k.n, k.pos)) ELSE index
            /\ call' = [call EXCEPT ![c] =
                          IF more THEN [k EXCEPT !.pos = k.pos + batch_size] ELSE NoCall]
            /\ latest' = IF more THEN latest
                         ELSE [latest EXCEPT ![k.doc] = Ended(k, ret)]
            /\ IF c \in Tasks /\ ~more
                 THEN /\ result' = [result EXCEPT ![c] =
                            [returned |-> TRUE, chunk_count |-> k.n, indexed |-> ret]]
                      /\ pc' = [pc EXCEPT ![c] = AfterProcess(result'[c])]
                 ELSE UNCHANGED <<result, pc>>
    /\ UNCHANGED <<background_tasks, rec, tempfile, exc, rd, queryVars>>

\* app.py:168-175 -- the finally clause: the temporary file is removed if it
\* exists, and the thread ends.
cleanup(t) ==
    /\ pc[t] = "l171"
    /\ tempfile' = tempfile \ {t}
    /\ pc' = [pc EXCEPT ![t] = "done"]
    /\ UNCHANGED <<background_tasks, rec, exc, result, call, index, rd, latest, queryVars>>

\* A record object lives while the table or a request handler refers to it.
Referenced(t, keys, reader) == t \in keys \/ reader.task = t

Collect(keys, reader) ==
    [t \in Tasks |-> IF Referenced(t, keys, reader) THEN rec[t] ELSE NoRec]

\* Mutant of delete_task: it also removes the task's temporary file.
delete_task_removing_file(t) ==
    /\ t \in background_tasks
    /\ background_tasks' = background_tasks \ {t}
    /\ rec' = Collect(background_tasks', rd)
    /\ tempfile' = tempfile \ {t}
    /\ UNCHANGED <<pc, exc, result, call, index, rd, latest, queryVars>>

\* app.py:617-630 delete_task: pops the id from the table (404 if absent)
delete_task(t) ==
    /\ t \in background_tasks
    /\ background_tasks' = background_tasks \ {t}
    /\ rec' = Collect(background_tasks', rd)
    /\ UNCHANGED <<tempfile, pc, exc, result, call, index, rd, latest, queryVars>>

Next ==
    \E t \in Tasks :
        \/ upload_document(t)
        \/ WorkerWrite(t)
        \/ process_document(t)
        \/ upsert_batch(t)
        \/ cleanup(t)
        \/ delete_task(t)

Spec == Init /\ [][Next]_vars

\* ------------------------------------------------------ reading a task
\* app.py:571-578 get_task_status: 404 unless the id is in the table;
\* otherwise `task' refers to the record object.
get_task_status(t) ==
    /\ rd.pc = "idle"
    /\ t \in background_tasks
    /\ rd' = [RdIdle EXCEPT !.task = t, !.pc = "l582"]
    /\ UNCHANGED <<background_tasks, rec, tempfile, pc, exc, result, call, index, latest, queryVars>>

\* app.py:582-589 -- the fields of the response, read one after another from
\* the record object: the field read at each line and the line read next
\* ("l590": the response is built).
ReadAt(p) ==
    CASE p = "l582" -> [field |-> "status",   next |-> "l583"]
      [] p = "l583" -> [field |-> "progress", next |-> "l584"]
      [] p = "l584" -> [field |-> "message",  next |-> "l588"]
      [] p = "l588" -> [field |-> "result",   next |-> "l589"]
      [] p = "l589" -> [field |-> "error",    next |-> "l590"]

ReadPcs == {"l582", "l583", "l584", "l588", "l589"}

read_field ==
    /\ rd.pc \in ReadPcs
    /\ rd' = [rd EXCEPT ![ReadAt(rd.pc).field] = rec[rd.task][ReadAt(rd.pc).field],
                        !.pc = ReadAt(rd.pc).next]
    /\ UNCHANGED <<background_tasks, rec, tempfile, pc, exc, result, call, index, latest, queryVars>>

\* app.py:580-590 -- the response is sent and the handler returns
respond ==
    /\ rd.pc = "l590"
    /\ rd' = RdIdle
    /\ rec' = Collect(background_tasks, rd')
    /\ UNCHANGED <<background_tasks, tempfile, pc, exc, result, call, index, latest, queryVars>>

NextRead ==
    \/ Next
    \/ \E t \in Tasks : get_task_status(t)
    \/ read_field
    \/ respond

SpecRead == Init /\ [][NextRead]_vars

\* ------------------------------------------- direct use of the vector index
\* vector_database.py:167-281 index_document_chunks called directly
\* (reindex_documents.py:62-73, process_pdfs.py:77-106: only with chunks)
index_document_chunks(doc, n) ==
    /\ call[DirectCaller] = NoCall
    /\ \E embed \in BOOLEAN :
        IF embed
          THEN /\ call' = [call EXCEPT ![DirectCaller] = BeginCall(doc, n)]
               /\ UNCHANGED latest
          ELSE /\ latest' = [latest EXCEPT ![doc] = Ended(BeginCall(doc, n), "failed")]
               /\ UNCHANGED call
    /\ UNCHANGED <<background_tasks, rec, tempfile, pc, exc, result, index, rd, queryVars>>

\* vector_database.py:423-443 delete_document: deletes by filter and returns
\* True, or the index raises and it returns False
delete_document(doc) ==
    /\ call[DirectCaller] = NoCall
    /\ \E ok \in BOOLEAN :
        /\ index' = IF ok THEN DeleteByFilter(index, doc) ELSE index
        /\ latest' = IF ok THEN [latest EXCEPT ![doc] = [NeverIndexed EXCEPT !.state = "deleted"]]
                     ELSE latest
    /\ UNCHANGED <<background_tasks, rec, tempfile, pc, exc, result, call, rd, queryVars>>

NextIndex ==
    \/ \E doc \in Docs, n \in ChunkCounts : index_document_chunks(doc, n)
    \/ upsert_batch(DirectCaller)
    \/ \E doc \in Docs : delete_document(doc)

SpecIndex == Init /\ [][NextIndex]_vars

\* ------------------------------------------------- one hybrid search
\* Raw cosine scores the index gives, in hundredths
RawScores == {-100, 25, 100}

Matches == {Match(id, score) : id \in ChunkIds, score \in RawScores}

\* What the index returns for a query (vector_database.py:313-320): up to
\* top_k matches of distinct chunks, best score first
IndexAnswers(top_k) ==
    UNION {{r \in [1..len -> Matches] :
               /\ \A i, j \in 1..len : i < j => r[i].id # r[j].id /\ r[i].score >= r[j].score}
           : len \in 0..Min(top_k, NumChunks)}

\* The inputs of one search: the number of terms of the query, max_results,
\* the semantic matches for top_k = 2 * max_results (:335-339) and the matches
\* of the keyword searches (:342)
SearchInputs ==
    UNION {[query_terms : 0..MaxQueryTerms, max_results : {k},
            semantic_results : IndexAnswers(2 * k), keyword_results : IndexAnswers(1)]
           : k \in 1..MaxResults}

InitSearch ==
    /\ InitIngest /\ InitAsk /\ InitStream /\ InitLib
    /\ search_in \in SearchInputs
    /\ search_out = NoSearchOut
    /\ rag_response = NoRagResponse
    /\ confidence_score = NoScore
    /\ primary_results = <<>>
    /\ context_window = NoContext

HybridSearch ==
    /\ ~search_out.done
    /\ search_out' = IF search_raises(search_in)
                       THEN [done |-> TRUE, raised |-> TRUE, results |-> <<>>]
                       ELSE [done |-> TRUE, raised |-> FALSE, results |-> search(search_in)]
    /\ UNCHANGED <<ingestVars, askVars, stream, search_in, rag_response,
                   confidence_score, primary_results, context_window, libVars>>

NextSearch == HybridSearch

SpecSearch == InitSearch /\ [][NextSearch]_vars

\* ---------------------------------------------- one confidence score
\* Relevance factors of a top result, and averages over the results
Factors ==
    [semantic_score : {-100, 50, 90}, keyword_score : {0, 100},
     jurisdiction_score : {50}, law_status_score : {30, 100},
     document_type_score : {50}]

ResultCounts == {1, 2, 5}

\* advanced_rag_system.py:585-594 -- what ask_question reports of a search:
\* nothing found, or the top result's final score, the number of results and
\* the factors' averages (of one result: its own factors)
RagResponses ==
    {NoRagResponse} \cup
    {[top_score |-> final_score(top), total_results |-> n, relevance_breakdown |-> avg] :
        <<top, avg, n>> \in {x \in Factors \X Factors \X ResultCounts :
                                x[3] = 1 => x[1] = x[2]}}

InitConfidence ==
    /\ InitIngest /\ InitAsk /\ InitStream /\ InitLib
    /\ search_in = NoSearch
    /\ search_out = NoSearchOut
    /\ rag_response \in RagResponses
    /\ confidence_score = NoScore
    /\ primary_results = <<>>
    /\ context_window = NoContext

ScoreConfidence ==
    /\ ~confidence_score.done
    /\ confidence_score' = [done |-> TRUE, value |-> calculate_confidence_score(rag_response)]
    /\ UNCHANGED <<ingestVars, askVars, stream, search_in, search_out, rag_response,
                   primary_results, context_window, libVars>>

NextConfidence == ScoreConfidence

SpecConfidence == InitConfidence /\ [][NextConfidence]_vars

\* ------------------------------------------------ one context window
\* Lengths of chunk contents, and citation chains of chunks
ContentLengths == {50, 2000, 3950, 4100}
CitationChains == {<<>>, <<Len("940.01")>>}

RankedResults == [content : ContentLengths, citation_chain : CitationChains]

ResultLists == UNION {[1..len -> RankedResults] : len \in 0..MaxResults}

InitContext ==
    /\ InitIngest /\ InitAsk /\ InitStream /\ InitLib
    /\ search_in = NoSearch
    /\ search_out = NoSearchOut
    /\ rag_response = NoRagResponse
    /\ confidence_score = NoScore
    /\ primary_results \in ResultLists
    /\ context_window = NoContext

AssembleContext ==
    /\ ~context_window.done
    /\ context_window' = [done |-> TRUE,
                          length |-> JoinLen(build_context_window(primary_results), 2)]
    /\ UNCHANGED <<ingestVars, askVars, stream, search_in, search_out, rag_response,
                   confidence_score, primary_results, libVars>>

NextContext == AssembleContext

SpecContext == InitContext /\ [][NextContext]_vars

\* ------------------------------------------------------------- ask
\* history[-n:]
LastN(history, n) == SubSeq(history, Max(1, Len(history) - n + 1), Len(history))

\* langchain_rag_chatbot.py:399-407 _build_chat_history: a HumanMessage and an
\* AIMessage for each of the last six exchanges
build_chat_history(history) ==
    LET last == LastN(history, history_in_prompt)
    IN  [i \in 1..(2 * Len(last)) |->
            IF i % 2 = 1 THEN <<"human", last[(i + 1) \div 2]>>
                         ELSE <<"ai", last[i \div 2]>>]

Questions == [citation : BOOLEAN, follow_up : BOOLEAN]

\* langchain_rag_chatbot.py:244-259 _determine_prompt_type
determine_prompt_type(question, history) ==
    IF question.citation THEN "citation_summary"
    ELSE IF question.follow_up /\ history # <<>> THEN "follow_up"
    ELSE "legal_qa"

PromptTypes == {"legal_qa", "citation_summary", "follow_up"}

\* Mutant of prompt_templates: only the follow-up template has the
\* chat_history placeholder.
prompt_templates_history_in_follow_up ==
    [t \in PromptTypes |->
        IF t = "follow_up" THEN {"context", "search_metrics", "chat_history", "question"}
                           ELSE {"context", "search_metrics", "question"}]

\* langchain_rag_chatbot.py:131-221 _create_prompt_templates: the input
\* variables each template has a placeholder for
prompt_templates ==
    [t \in PromptTypes |-> {"context", "search_metrics", "chat_history", "question"}]

\* langchain_rag_chatbot.py:223-242, :551-557 -- the prompt the chain builds:
\* the value given for each placeholder of the template
FormatPrompt(template, inputs) == [v \in template |-> inputs[v]]

\* The history messages a prompt contains
HistoryIn(prompt) == Get(prompt, "chat_history", <<>>)

\* The retrieval summary ask_question gives: for a search that found chunks
\* (five results, the top one a close match), and for one that found nothing
FoundFactors ==
    [semantic_score |-> 90, keyword_score |-> 100, jurisdiction_score |-> 60,
     law_status_score |-> 100, document_type_score |-> 100]

RagResponseOf(retrieval) ==
    IF retrieval = "results"
      THEN [top_score |-> final_score(FoundFactors), total_results |-> 5,
            relevance_breakdown |-> FoundFactors]
      ELSE NoRagResponse

\* str(e) of what the LLM chain raises, and of what retrieval raises
\* (advanced_rag_system.py:482, vector_database.py:301)
LlmError == "llm error"
RetrievalError == "retrieval error"

Apology(e) ==
    <<"I apologize, but I encountered an error while processing your question. Please try again. Error: ", e>>

\* Mutant of ErrorResponse: the error response carries no warning.
ErrorResponseWithoutWarning(e) ==
    [prompt_type |-> "error", answer |-> Apology(e), confidence_score |-> 0,
     low_confidence_warning |-> FALSE, error |-> e]

\* langchain_rag_chatbot.py:610-627 -- the response of the except clause
ErrorResponse(e) ==
    [prompt_type |-> "error", answer |-> Apology(e), confidence_score |-> 0,
     low_confidence_warning |-> TRUE, error |-> e]

\* langchain_rag_chatbot.py:560-568 -- the response for the LLM's answer
AnswerResponse(prompt_type, rag) ==
    [prompt_type |-> prompt_type, answer |-> <<"answer">>,
     confidence_score |-> calculate_confidence_score(rag),
     low_confidence_warning |-> low_confidence(calculate_confidence_score(rag)),
     error |-> None]

\* langchain_rag_chatbot.py:528-540 -- retrieval, then the locals built from
\* it and from the history.  The retrieval
\*   "results"      found chunks;
\*   "query_failed" the index query raised inside search_legal_documents,
\*                  which returned [] (vector_database.py:322-324);
\*   "raised"       raised out of ask_question into the except clause (:610).
ask_retrieve(a) ==
    /\ ask[a].pc = "idle"
    /\ answered < MaxAnswers
    /\ \E question \in Questions, retrieval \in {"results", "query_failed", "raised"} :
        ask' = [ask EXCEPT ![a] =
                  IF retrieval = "raised"
                    THEN [AskIdle EXCEPT !.question = question, !.retrieval = retrieval,
                                         !.response = ErrorResponse(RetrievalError)]
                    ELSE [AskIdle EXCEPT !.question = question, !.retrieval = retrieval,
                                         !.pc = "l544",
                                         !.chat_history = build_chat_history(conversation_history)]]
    /\ UNCHANGED <<ingestVars, conversation_history, answered, stream, pureVars, libVars>>

\* langchain_rag_chatbot.py:544
ask_prompt_type(a) ==
    /\ ask[a].pc = "l544"
    /\ ask' = [ask EXCEPT ![a].prompt_type =
                              determine_prompt_type(ask[a].question, conversation_history),
                          ![a].pc = "l552"]
    /\ UNCHANGED <<ingestVars, conversation_history, answered, stream, pureVars, libVars>>

\* langchain_rag_chatbot.py:551-568 -- chain.invoke: the prompt is built and
\* sent; the LLM answers, or raises into the except clause (:610)
ask_invoke(a) ==
    /\ ask[a].pc = "l552"
    /\ \E ok \in BOOLEAN :
        LET rag == RagResponseOf(ask[a].retrieval)
            prompt == FormatPrompt(prompt_templates[ask[a].prompt_type],
                          [context |-> ask[a].retrieval,
                           search_metrics |-> rag.top_score,
                           chat_history |-> ask[a].chat_history,
                           question |-> ask[a].question])
        IN  ask' = [ask EXCEPT ![a].prompt = prompt,
                               ![a].response = IF ok THEN AnswerResponse(ask[a].prompt_type, rag)
                                                     ELSE ErrorResponse(LlmError),
                               ![a].pc = IF ok THEN "l597" ELSE "idle"]
    /\ UNCHANGED <<ingestVars, conversation_history, answered, stream, pureVars, libVars>>

\* langchain_rag_chatbot.py:597-602 -- list.append
ask_append(a) ==
    /\ ask[a].pc = "l597"
    /\ conversation_history' = Append(conversation_history, answered + 1)
    /\ answered' = answered + 1
    /\ ask' = [ask EXCEPT ![a].pc = "l605"]
    /\ UNCHANGED <<ingestVars, stream, pureVars, libVars>>

\* langchain_rag_chatbot.py:605 -- the test; the call returns if it fails
ask_check(a) ==
    /\ ask[a].pc = "l605"
    /\ ask' = [ask EXCEPT ![a].pc =
                  IF Len(conversation_history) > history_limit THEN "l606" ELSE "idle"]
    /\ UNCHANGED <<ingestVars, conversation_history, answered, stream, pureVars, libVars>>

\* langchain_rag_chatbot.py:606, right-hand side: a new list of the last ten
ask_slice(a) ==
    /\ ask[a].pc = "l606"
    /\ ask' = [ask EXCEPT ![a].slice = LastN(conversation_history, history_limit),
                          ![a].pc = "l606_store"]
    /\ UNCHANGED <<ingestVars, conversation_history, answered, stream, pureVars, libVars>>

\* langchain_rag_chatbot.py:606, the assignment; then the call returns (:608)
ask_store(a) ==
    /\ ask[a].pc = "l606_store"
    /\ conversation_history' = ask[a].slice
    /\ ask' = [ask EXCEPT ![a].slice = <<>>, ![a].pc = "idle"]
    /\ UNCHANGED <<ingestVars, answered, stream, pureVars, libVars>>

NextAsk ==
    \E a \in Askers :
        \/ ask_retrieve(a)
        \/ ask_prompt_type(a)
        \/ ask_invoke(a)
        \/ ask_append(a)
        \/ ask_check(a)
        \/ ask_slice(a)
        \/ ask_store(a)

SpecAsk == Init /\ [][NextAsk]_vars

\* -------------------------------------------------------- streaming
TerminalTypes == {"complete", "error"}

\* Where a generator rests between two next() calls
OuterYields == {"created", "l273", "l277", "l287"}
InnerYields == {"l712", "l772", "l795"}

\* Mutant of Catches: the except clause catches GeneratorExit as well.
CatchesBaseException(e) == TRUE

\* `except Exception as e' (langchain_rag_chatbot.py:777, app.py:279) catches
\* every exception but GeneratorExit, which close() raises at the yield the
\* generator rests at and which is a BaseException
Catches(e) == e # "GeneratorExit"

\* langchain_rag_chatbot.py:760-769 -- append and trim, by the one request
\* thread there is here
Remember(history, exchange) ==
    LET h == Append(history, exchange)
    IN  IF Len(h) > history_limit THEN LastN(h, history_limit) ELSE h

\* app.py:237-298 chat_stream: the response is given the generator object
\* generate_stream(); nothing of it has run yet
chat_stream ==
    /\ stream.outer \in {"none", "returned", "closed"}
    /\ answered < MaxAnswers
    /\ stream' = [NoStream EXCEPT !.outer = "created"]
    /\ UNCHANGED <<ingestVars, askVars, pureVars, libVars>>

\* The server asks generate_stream for its next event: the generator goes on
\* from the yield it rests at -- to the for statement (app.py:259), to the
\* loop over the characters (:267), or, after the yield of the except clause
\* (:287), to its end
server_next ==
    /\ ~stream.closed
    /\ stream.outer \in OuterYields
    /\ stream' = [stream EXCEPT !.outer =
                     CASE stream.outer = "created" -> "l259"
                       [] stream.outer = "l273" -> "l267"
                       [] stream.outer = "l277" -> "l259"
                       [] stream.outer = "l287" -> "returned"]
    /\ UNCHANGED <<ingestVars, askVars, pureVars, libVars>>

\* app.py:259 -- the for statement asks ask_streaming for its next chunk, and
\* ask_streaming (langchain_rag_chatbot.py:647-798) runs to its next yield or
\* to its end:
\*   from its start or from the content yield (:712), something raises
\*   (retrieval, the LLM stream) and the except clause yields error (:795); or
\*   the LLM gives a chunk of some characters, yielded as content (:712); or
\*   the LLM stream ends, the exchange is put in the history and complete is
\*   yielded (:772);
\*   from the complete or the error yield, it returns.
ask_streaming_resume ==
    /\ stream.outer = "l259"
    /\ IF stream.inner \in {"l772", "l795"}
         THEN /\ stream' = [stream EXCEPT !.inner = "returned", !.outer = "returned"]
              /\ UNCHANGED <<conversation_history, answered>>
         ELSE \/ /\ Catches("Exception")
                 /\ stream' = [stream EXCEPT !.inner = "l795", !.outer = "l277_dumps",
                                             !.terminal = "error",
                                             !.yielded = Append(@, "error")]
                 /\ UNCHANGED <<conversation_history, answered>>
              \/ /\ stream.chunks < MaxChunks
                 /\ \E chars \in 0..MaxChars :
                      stream' = [stream EXCEPT !.inner = "l712", !.outer = "l267",
                                               !.chunks = @ + 1, !.pending = chars,
                                               !.yielded = Append(@, "content")]
                 /\ UNCHANGED <<conversation_history, answered>>
              \/ /\ stream' = [stream EXCEPT !.inner = "l772", !.outer = "l277_dumps",
                                             !.terminal = "complete",
                                             !.yielded = Append(@, "complete")]
                 /\ conversation_history' = Remember(conversation_history, answered + 1)
                 /\ answered' = answered + 1
    /\ UNCHANGED <<ingestVars, ask, pureVars, libVars>>

\* app.py:267-274 -- the loop over the characters of a content chunk: the next
\* character is yielded as a content event, or, none being left, the for
\* statement goes on
generate_stream_chars ==
    /\ stream.outer = "l267"
    /\ stream' = IF stream.pending = 0
                   THEN [stream EXCEPT !.outer = "l259"]
                   ELSE [stream EXCEPT !.outer = "l273", !.pending = @ - 1,
                                       !.sent = Append(@, "content")]
    /\ UNCHANGED <<ingestVars, askVars, pureVars, libVars>>

\* app.py:277 -- a complete or error chunk is serialised and yielded; if
\* json.dumps raises on the complete chunk's response, the except clause
\* yields an error event instead (:279-287)
generate_stream_dumps ==
    /\ stream.outer = "l277_dumps"
    /\ \E serialisable \in BOOLEAN :
        /\ stream.terminal = "error" => serialisable
        /\ stream' = IF serialisable \/ ~Catches("TypeError")
                       THEN [stream EXCEPT !.outer = "l277", !.sent = Append(@, stream.terminal)]
                       ELSE [stream EXCEPT !.outer = "l287", !.sent = Append(@, "error")]
    /\ UNCHANGED <<ingestVars, askVars, pureVars, libVars>>

\* The client goes away and the server closes the response: close() raises
\* GeneratorExit at the yield generate_stream rests at.  Inside the try
\* statement (:273, :277) the except clause is asked whether it catches it;
\* uncaught, it ends the generator, and ask_streaming, now unreferenced, is
\* closed the same way at its own yield.
client_close ==
    /\ ~stream.closed
    /\ stream.outer \in OuterYields
    /\ stream' =
         IF stream.outer \in {"l273", "l277"} /\ Catches("GeneratorExit")
           THEN [stream EXCEPT !.closed = TRUE, !.outer = "l287",
                               !.sent = Append(@, "error")]
           ELSE [stream EXCEPT !.closed = TRUE, !.outer = "closed",
                               !.inner = IF stream.inner \in InnerYields THEN "closed" ELSE @,
                               !.yielded = IF stream.inner \in InnerYields /\ Catches("GeneratorExit")
                                             THEN Append(@, "error") ELSE @]
    /\ UNCHANGED <<ingestVars, askVars, pureVars, libVars>>

NextStream ==
    \/ chat_stream
    \/ server_next
    \/ ask_streaming_resume
    \/ generate_stream_chars
    \/ generate_stream_dumps
    \/ client_close

SpecStream == Init /\ [][NextStream]_vars

\* ------------------------------------------- one choice of a prompt template
\* A question is text: a sequence of characters.  str.lower() on the letters
\* the questions of the model are written with
Lower(text) ==
    [i \in 1..Len(text) |->
        CASE text[i] = "A" -> "a"
          [] text[i] = "B" -> "b"
          [] OTHER -> text[i]]

\* Python's str.startswith
StartsWith(text, keyword) ==
    /\ Len(keyword) <= Len(text)
    /\ SubSeq(text, 1, Len(keyword)) = keyword

\* Python's `keyword in text' on strings: keyword occurs somewhere in text
In(keyword, text) ==
    \E i \in 1..(Len(text) - Len(keyword) + 1) :
        SubSeq(text, i, i + Len(keyword) - 1) = keyword

\* langchain_rag_chatbot.py:249
citation_keywords ==
    <<<<"c", "i", "t", "e">>,
      <<"c", "i", "t", "a", "t", "i", "o", "n">>,
      <<"s", "t", "a", "t", "u", "t", "e">>,
      <<"c", "a", "s", "e">>,
      <<"a", "u", "t", "h", "o", "r", "i", "t", "y">>,
      <<"l", "e", "g", "a", "l", " ", "b", "a", "s", "i", "s">>,
      <<"w", "h", "a", "t", " ", "l", "a", "w">>,
      <<"w", "h", "i", "c", "h", " ", "l", "a", "w">>>>

\* langchain_rag_chatbot.py:254
follow_up_keywords ==
    <<<<"a", "l", "s", "o">>,
      <<"a", "d", "d", "i", "t", "i", "o", "n", "a", "l", "l", "y">>,
      <<"f", "u", "r", "t", "h", "e", "r", "m", "o", "r", "e">>,
      <<"m", "o", "r", "e", "o", "v", "e", "r">>,
      <<"w", "h", "a", "t", " ", "a", "b", "o", "u", "t">>,
      <<"h", "o", "w", " ", "a", "b", "o", "u", "t">>,
      <<"a", "n", "d">>,
      <<"b", "u", "t">>>>

Range(seq) == {seq[i] : i \in DOMAIN seq}

\* langchain_rag_chatbot.py:246-255 -- what _determine_prompt_type finds out
\* about the question: any(keyword in question_lower ...) for each list
KeywordsIn(text) ==
    LET question_lower == Lower(text)
    IN  [citation |-> \E keyword \in Range(citation_keywords) : In(keyword, question_lower),
         follow_up |-> \E keyword \in Range(follow_up_keywords) : In(keyword, question_lower)]

\* The words questions are made of
Vocabulary ==
    {<<"a", "n", "d">>,
     <<"B", "u", "t">>,
     <<"b", "a", "n", "d">>,
     <<"c", "a", "s", "e">>,
     <<"l", "a", "w">>}

\* " ".join(words)
JoinWords(words) ==
    IF Len(words) = 1 THEN words[1]
    ELSE LET F[i \in 1..Len(words)] ==
                 IF i = 1 THEN words[1] ELSE F[i - 1] \o <<" ">> \o words[i]
         IN  F[Len(words)]

QuestionTexts ==
    {JoinWords(words) : words \in UNION {[1..n -> Vocabulary] : n \in 1..MaxWords}}

\* self.conversation_history when the question is asked: empty, or one exchange
PromptInputs == [question : QuestionTexts, history : {<<>>, <<1>>}]

InitPrompt ==
    /\ InitBesidesPrompt
    /\ prompt_in \in PromptInputs
    /\ prompt_out = [done |-> FALSE, prompt_type |-> None]

DeterminePromptType ==
    /\ ~prompt_out.done
    /\ prompt_out' = [done |-> TRUE,
                      prompt_type |-> determine_prompt_type(KeywordsIn(prompt_in.question),
                                                            prompt_in.history)]
    /\ UNCHANGED <<prompt_in, besidesPrompt>>

NextPrompt == DeterminePromptType

SpecPrompt == InitPrompt /\ [][NextPrompt]_vars

\* ------------------------------------------ one check for outdated information
\* The years the dates of the model fall in, and the years a check is made in
Years == {2005, 2016, 2020}
CurrentYears == {2026, 2027}

\* advanced_rag_system.py:44-54, 446-461 -- a SearchResult: the fields of the
\* dataclass; the dates of a chunk are in its metadata (vector_database.py:
\* 240-241), each date given by the year int(date_str.split('-')[0]) reads
SearchResult(dates) ==
    [content |-> "content", score |-> FinalOne, metadata |-> [dates |-> dates],
     relevance_factors |-> EmptyDict, citation_chain |-> <<>>,
     jurisdiction |-> "federal", law_status |-> "current",
     document_type |-> "statute"]

SearchResults == {SearchResult(dates) : dates \in SUBSET Years}

\* Python's hasattr on an instance of the dataclass
HasAttr(obj, name) == name \in DOMAIN obj

\* langchain_rag_chatbot.py:453-475 _check_outdated_information
check_outdated_information(search_results, current_year) ==
    \E i \in 1..Len(search_results) :
        LET r == search_results[i]
        IN  /\ HasAttr(r, "dates")
            /\ r.dates # {}
            /\ \E year \in r.dates : current_year - year > 10

OutdatedInputs ==
    [search_results : UNION {[1..n -> SearchResults] : n \in 0..MaxResults},
     current_year : CurrentYears]

InitOutdated ==
    /\ InitBesidesOutdated
    /\ outdated_in \in OutdatedInputs
    /\ outdated_out = [done |-> FALSE, outdated |-> FALSE]

CheckOutdated ==
    /\ ~outdated_out.done
    /\ outdated_out' = [done |-> TRUE,
                        outdated |-> check_outdated_information(outdated_in.search_results,
                                                                outdated_in.current_year)]
    /\ UNCHANGED <<outdated_in, besidesOutdated>>

NextOutdated == CheckOutdated

SpecOutdated == InitOutdated /\ [][NextOutdated]_vars

\* ------------------------------------- one upload, from the form to the vectors
\* The file names uploaded
FileNames == {"a.pdf", "b c.pdf"}

\* werkzeug's secure_filename (app.py:329): a space becomes an underscore
secure_filename(filename) == IF filename = "b c.pdf" THEN "b_c.pdf" ELSE filename

FormKeys == {"document_type", "jurisdiction", "law_status"}

FormValues(key) ==
    CASE key = "document_type" -> {"case_law", "policy", "training"}
      [] key = "jurisdiction" -> {"wisconsin", "federal"}
      [] key = "law_status" -> {"superseded"}

\* request.form: the fields the uploader supplied, each of them optional
Forms ==
    UNION {{f \in [keys -> UNION {FormValues(k) : k \in FormKeys}] :
               \A k \in keys : f[k] \in FormValues(k)} : keys \in SUBSET FormKeys}

\* app.py:328-335 -- metadata built from the form (upload_date and
\* uploaded_by left out)
UploadMetadata(filename, form) ==
    [file_name |-> secure_filename(filename),
     document_type |-> Get(form, "document_type", "Unknown"),
     jurisdiction |-> Get(form, "jurisdiction", "federal"),
     law_status |-> Get(form, "law_status", "current")]

\* A file name is a sequence of parts.  app.py:338 -- the name of the
\* temporary file, f"{task_id}_{file_name}"; Path(filepath).name is all of it
TempPath(task_id, file_name) == <<task_id, "_", file_name>>

\* document_chunker.py:71-95 -- chunk i of what chunk_document returns: its
\* metadata has what the chunker read in the text, nothing of the upload
ChunkOf(i, document_type) ==
    [content |-> "content",
     chunk_type |-> CASE document_type = "case_law" -> "case_law_section"
                      [] document_type = "policy" -> "policy_section"
                      [] document_type = "training" -> "training_module"
                      [] OTHER -> "general",
     metadata |-> [statute_numbers |-> <<>>]]

\* document_processor.py:191-196 -- process_document adds the name of the
\* file it was given to each chunk's metadata
Annotate(chunk, file_path) ==
    [chunk EXCEPT !.metadata =
        [key \in DOMAIN chunk.metadata \cup {"file_name", "original_file_name"} |->
            IF key \in {"file_name", "original_file_name"}
              THEN file_path
              ELSE chunk.metadata[key]]]

\* vector_database.py:185-268 -- the metadata index_document_chunks gives the
\* vector of chunk i of n: the keys it copies from the chunk's metadata
CopiedKeys == {"file_name", "original_file_name", "section_number", "section_title",
               "statute_numbers", "case_citations", "dates", "section_type",
               "policy_numbers", "module_title", "learning_objectives", "key_terms"}

\* vector_database.py:229-258 -- the lists are copied only if not empty
CopiedIfNotEmpty == {"statute_numbers", "case_citations", "dates", "policy_numbers",
                     "learning_objectives", "key_terms"}

VectorMetadata(chunk, document_id, i, n) ==
    LET copied == {key \in DOMAIN chunk.metadata \cap CopiedKeys :
                      key \in CopiedIfNotEmpty => chunk.metadata[key] # <<>>}
        own == {"document_id", "chunk_type", "content", "chunk_index", "total_chunks"}
    IN  [key \in own \cup copied |->
            CASE key = "document_id" -> document_id
              [] key = "chunk_type" -> chunk.chunk_type
              [] key = "content" -> chunk.content
              [] key = "chunk_index" -> i
              [] key = "total_chunks" -> n
              [] OTHER -> chunk.metadata[key]]

\* app.py:304-378 upload_document, for the task id the upload is given
submit_upload ==
    /\ ~submitted.done
    /\ \E filename \in FileNames, form \in Forms :
         LET metadata == UploadMetadata(filename, form)
         IN  /\ submitted' = [done |-> TRUE, filename |-> filename, form |-> form]
             /\ task' = [status |-> "uploaded",
                         filepath |-> TempPath("1", metadata.file_name),
                         metadata |-> metadata]
    /\ UNCHANGED <<vectors, besidesSubmit>>

\* app.py:120-175 process_document_background with document_processor.py:
\* 147-205 process_document and vector_database.py:167-281
\* index_document_chunks, none of them failing: the chunker gives n chunks;
\* the document id (document_processor.py:188) is made of the file's name
run_upload ==
    /\ task.status = "uploaded"
    /\ \E n \in 1..MaxChunks :
         LET document_type == task.metadata.document_type
             annotated == [i \in 1..n |-> Annotate(ChunkOf(i, document_type), task.filepath)]
         IN  vectors' = [i \in 1..n |->
                            [id |-> <<task.filepath, i - 1>>,
                             metadata |-> VectorMetadata(annotated[i], task.filepath, i - 1, n)]]
    /\ task' = [task EXCEPT !.status = "completed"]
    /\ UNCHANGED <<submitted, besidesSubmit>>

NextSubmit == submit_upload \/ run_upload

SpecSubmit == Init /\ [][NextSubmit]_vars

\* --------------------------------------------------- a query enhanced twice
\* A query is a sequence of lower-case words; a term or a synonym is one too,
\* and is in a query when its words stand together in it.  (expand_query
\* tests and replaces regardless of case, advanced_rag_system.py:160-175.)
\* advanced_rag_system.py:71-89
legal_synonyms ==
    <<[term |-> <<"search">>,
       synonyms |-> <<<<"search">>, <<"seizure">>, <<"inspection">>, <<"examination">>, <<"investigation">>>>],
      [term |-> <<"warrant">>,
       synonyms |-> <<<<"warrant">>, <<"court", "order">>, <<"judicial", "authorization">>, <<"search", "warrant">>>>],
      [term |-> <<"evidence">>,
       synonyms |-> <<<<"evidence">>, <<"proof">>, <<"testimony">>, <<"documentation">>, <<"exhibit">>>>],
      [term |-> <<"privacy">>,
       synonyms |-> <<<<"privacy">>, <<"confidentiality">>, <<"secrecy">>, <<"protection">>, <<"right", "to", "privacy">>>>],
      [term |-> <<"digital">>,
       synonyms |-> <<<<"digital">>, <<"electronic">>, <<"computer">>, <<"online">>, <<"cyber">>, <<"virtual">>>>],
      [term |-> <<"amendment">>,
       synonyms |-> <<<<"amendment">>, <<"constitutional", "right">>, <<"bill", "of", "rights">>>>],
      [term |-> <<"statute">>,
       synonyms |-> <<<<"statute">>, <<"law">>, <<"code">>, <<"regulation">>, <<"ordinance">>>>],
      [term |-> <<"case">>,
       synonyms |-> <<<<"case">>, <<"decision">>, <<"ruling">>, <<"opinion">>, <<"precedent">>>>],
      [term |-> <<"court">>,
       synonyms |-> <<<<"court">>, <<"tribunal">>, <<"judiciary">>, <<"bench">>>>],
      [term |-> <<"law", "enforcement">>,
       synonyms |-> <<<<"law", "enforcement">>, <<"police">>, <<"officer">>, <<"detective">>, <<"investigator">>>>],
      [term |-> <<"criminal">>,
       synonyms |-> <<<<"criminal">>, <<"felony">>, <<"misdemeanor">>, <<"offense">>, <<"crime">>>>],
      [term |-> <<"civil">>,
       synonyms |-> <<<<"civil">>, <<"civilian">>, <<"private">>, <<"non-criminal">>>>],
      [term |-> <<"federal">>,
       synonyms |-> <<<<"federal">>, <<"national">>, <<"u.s.">>, <<"united", "states">>>>],
      [term |-> <<"state">>,
       synonyms |-> <<<<"state">>, <<"local">>, <<"municipal">>, <<"county">>>>],
      [term |-> <<"supreme", "court">>,
       synonyms |-> <<<<"supreme", "court">>, <<"scotus">>, <<"u.s.", "supreme", "court">>>>],
      [term |-> <<"appeals", "court">>,
       synonyms |-> <<<<"appeals", "court">>, <<"circuit", "court">>, <<"appellate", "court">>>>],
      [term |-> <<"district", "court">>,
       synonyms |-> <<<<"district", "court">>, <<"trial", "court">>, <<"federal", "district", "court">>>>]>>

\* advanced_rag_system.py:92-119, those written as one word
abbreviations ==
    ("leo" :> <<"law", "enforcement", "officer">>) @@
    ("doj" :> <<"department", "of", "justice">>) @@
    ("fbi" :> <<"federal", "bureau", "of", "investigation">>) @@
    ("dea" :> <<"drug", "enforcement", "administration">>) @@
    ("atf" :> <<"bureau", "of", "alcohol,", "tobacco,", "firearms", "and", "explosives">>) @@
    ("ice" :> <<"immigration", "and", "customs", "enforcement">>) @@
    ("dhs" :> <<"department", "of", "homeland", "security">>) @@
    ("usc" :> <<"united", "states", "code">>) @@
    ("cfr" :> <<"code", "of", "federal", "regulations">>) @@
    ("scotus" :> <<"supreme", "court", "of", "the", "united", "states">>) @@
    ("supra" :> <<"above">>) @@
    ("infra" :> <<"below">>)

\* advanced_rag_system.py:122-153
spell_corrections ==
    ("amendmant" :> "amendment") @@
    ("ammendment" :> "amendment") @@
    ("constititional" :> "constitutional") @@
    ("constituional" :> "constitutional") @@
    ("jurisdiciton" :> "jurisdiction") @@
    ("jurisdicition" :> "jurisdiction") @@
    ("statutue" :> "statute") @@
    ("statutte" :> "statute") @@
    ("warrrant" :> "warrant") @@
    ("warrantt" :> "warrant") @@
    ("evidance" :> "evidence") @@
    ("evidense" :> "evidence") @@
    ("privacey" :> "privacy") @@
    ("privicy" :> "privacy") @@
    ("digitial" :> "digital") @@
    ("digtial" :> "digital") @@
    ("enforcment" :> "enforcement") @@
    ("enforcemnt" :> "enforcement") @@
    ("investigation" :> "investigation") @@
    ("investigaton" :> "investigation") @@
    ("criminial" :> "criminal") @@
    ("crimnal" :> "criminal") @@
    ("federral" :> "federal") @@
    ("fedral" :> "federal") @@
    ("supreem" :> "supreme") @@
    ("supreme" :> "supreme") @@
    ("appelate" :> "appellate") @@
    ("appellate" :> "appellate") @@
    ("distric" :> "district") @@
    ("distrct" :> "district")

\* `phrase in query_lower'
PhraseIn(phrase, words) ==
    \E i \in 1..(Len(words) - Len(phrase) + 1) :
        SubSeq(words, i, i + Len(phrase) - 1) = phrase

\* the phrases of a list joined by spaces
RECURSIVE Flatten(_)
Flatten(phrases) ==
    IF phrases = <<>> THEN <<>> ELSE Head(phrases) \o Flatten(Tail(phrases))

\* advanced_rag_system.py:163-168 -- each abbreviation replaced by its full form
ExpandAbbreviations(words) ==
    Flatten([i \in 1..Len(words) |->
                IF words[i] \in DOMAIN abbreviations THEN abbreviations[words[i]]
                                                     ELSE <<words[i]>>])

\* advanced_rag_system.py:171-175 -- each misspelling that is in the query
\* given replaced by its correction
CorrectSpelling(words, query_lower) ==
    [i \in 1..Len(words) |->
        IF words[i] \in DOMAIN spell_corrections /\ PhraseIn(<<words[i]>>, query_lower)
          THEN spell_corrections[words[i]]
          ELSE words[i]]

\* advanced_rag_system.py:186-188 -- the first two synonyms of a term that are
\* not in the query
NewSynonyms(synonyms, query_lower) ==
    LET first == SubSeq(synonyms, 1, Min(synonyms_per_term, Len(synonyms)))
    IN  SelectSeq(first, LAMBDA synonym : ~PhraseIn(synonym, query_lower))

RECURSIVE ExpandedTerms(_, _)
\* advanced_rag_system.py:181-188 -- expanded_terms, over the terms from the
\* k-th on
ExpandedTerms(k, query_lower) ==
    IF k > Len(legal_synonyms) THEN <<>>
    ELSE (IF PhraseIn(legal_synonyms[k].term, query_lower)
            THEN NewSynonyms(legal_synonyms[k].synonyms, query_lower)
            ELSE <<>>) \o ExpandedTerms(k + 1, query_lower)

\* advanced_rag_system.py:155-201 expand_query: the enhanced_query
expand_query(words) ==
    LET query_lower == words
        expanded_query == CorrectSpelling(ExpandAbbreviations(words), query_lower)
        expanded_terms == ExpandedTerms(1, query_lower)
    IN  expanded_query
          \o Flatten(SubSeq(expanded_terms, 1, Min(max_expanded_terms, Len(expanded_terms))))

\* The words queries are made of
QueryWords == {"warrant", "court", "search", "fbi", "evidance"}

Queries == UNION {[1..n -> QueryWords] : n \in 1..MaxWords}

InitEnhance ==
    /\ InitBesidesEnhance
    /\ query \in Queries
    /\ enhanced = <<>>

\* expand_query called on the query, then on what the call before returned
Enhance ==
    /\ Len(enhanced) < 2
    /\ enhanced' = Append(enhanced,
                          expand_query(IF enhanced = <<>> THEN query
                                                          ELSE enhanced[Len(enhanced)]))
    /\ UNCHANGED <<query, besidesEnhance>>

NextEnhance == Enhance

SpecEnhance == InitEnhance /\ [][NextEnhance]_vars

\* ------------------------------------------- one detection of a document type
\* document_processor.py:112-142 -- self.document_patterns in the order of the
\* dict, the text in lower case (keywords and patterns are matched regardless
\* of case, :379, :383); of the patterns, those that are fixed phrases
document_patterns ==
    <<[doc_type |-> "case_law",
       keywords |-> {"case", "court", "judgment", "opinion", "appeal", "petitioner",
                     "respondent"},
       patterns |-> {<<"opinion", "of", "the", "court">>}],
      [doc_type |-> "policy",
       keywords |-> {"policy", "procedure", "guideline", "regulation", "standard",
                     "protocol"},
       patterns |-> {<<"department", "policy">>,
                     <<"standard", "operating", "procedure">>}],
      [doc_type |-> "training",
       keywords |-> {"training", "course", "module", "lesson", "instruction",
                     "education"},
       patterns |-> {<<"course", "objective">>, <<"learning", "outcome">>,
                     <<"training", "material">>}]>>

\* document_processor.py:376-385 -- the score of the k-th document type: one
\* for each keyword in the text, two for each pattern found
TypeScore(k, text) ==
    Cardinality({keyword \in document_patterns[k].keywords : PhraseIn(<<keyword>>, text)})
      + 2 * Cardinality({pattern \in document_patterns[k].patterns : PhraseIn(pattern, text)})

\* document_processor.py:371-391 _detect_document_type; max(scores,
\* key=scores.get) is the first key of the dict with the greatest score
detect_document_type(text) ==
    LET types == 1..Len(document_patterns)
    IN  IF types # {}
          THEN LET first == CHOOSE k \in types :
                               /\ \A j \in types : TypeScore(j, text) <= TypeScore(k, text)
                               /\ \A j \in types : j < k => TypeScore(j, text) < TypeScore(k, text)
               IN  document_patterns[first].doc_type
          ELSE "general"

\* The pieces texts are made of
TextPieces ==
    {<<"court">>, <<"policy">>, <<"lesson">>, <<"course", "objective">>,
     <<"department", "policy">>, <<"hello">>}

Texts == {Flatten(pieces) : pieces \in UNION {[1..n -> TextPieces] : n \in 1..MaxWords}}

InitDetect ==
    /\ InitBesidesDetect
    /\ text_content \in Texts
    /\ detected = [done |-> FALSE, document_type |-> None]

DetectDocumentType ==
    /\ ~detected.done
    /\ detected' = [done |-> TRUE, document_type |-> detect_document_type(text_content)]
    /\ UNCHANGED <<text_content, besidesDetect>>

NextDetect == DetectDocumentType

SpecDetect == InitDetect /\ [][NextDetect]_vars

\* ------------------------------------------- one run of the case-law chunker
\* A line is a sequence of sentences, joined by ". " in the text; a sentence
\* is a piece of text that is a section heading, plain text, or the mention
\* of one statute number or of one case citation.  Sizes are counted in
\* sentences: chunk_size and chunk_overlap are those of the constructor
\* (document_chunker.py:38) on that scale.
Sentences == {"OPINION", "text", "940.01", "968.12", "Terry v. Ohio, 392US 1"}

\* document_chunker.py:522-524 _extract_statute_numbers
extract_statute_numbers(line) ==
    SelectSeq(line, LAMBDA sentence : sentence \in {"940.01", "968.12"})

\* document_chunker.py:526-528 _extract_case_citations
extract_case_citations(line) ==
    SelectSeq(line, LAMBDA sentence : sentence = "Terry v. Ohio, 392US 1")

\* document_chunker.py:201 -- re.match of the court_opinion pattern (:58)
IsSectionBreak(line) == line[1] = "OPINION"

\* The text of a chunk is a sequence of the pieces that '. ' separates, each
\* of them the sentences that newlines join.  current_chunk += line + '\n'
\* (:223), and line + '\n' (:213) when the chunk is empty
AddLine(chunk, line) ==
    LET joined == IF chunk = <<>> THEN <<<<line[1]>>>>
                  ELSE [chunk EXCEPT ![Len(chunk)] = Append(@, line[1])]
    IN  joined \o [k \in 1..(Len(line) - 1) |-> <<line[k + 1]>>]

\* len(current_chunk), in sentences
Size(chunk) == Sum([k \in 1..Len(chunk) |-> Len(chunk[k])])

\* the sentences a text holds: a number or a citation is a substring of the
\* text exactly when the sentence mentioning it is one of them
SentencesOf(chunk) == UNION {Range(chunk[k]) : k \in 1..Len(chunk)}

\* a new metadata dict with new lists (:189-193, :214-219)
NewLists(line) ==
    [statute_numbers |-> extract_statute_numbers(line),
     case_citations |-> extract_case_citations(line)]

\* a chunk appended to chunks: current_metadata.copy() is a shallow copy, its
\* lists are those of current_metadata (:205, :240, :251)
Emit(content) == Append(chunks, [content |-> content, metadata |-> current_metadata])

\* The lines documents are made of
Lines ==
    {<<"OPINION">>, <<"text">>, <<"940.01">>, <<"968.12">>,
     <<"Terry v. Ohio, 392US 1">>, <<"text", "940.01">>, <<"968.12", "text">>}

Documents == UNION {[1..n -> Lines] : n \in 1..MaxLines}

InitChunk ==
    /\ InitBesidesChunk
    /\ lines \in Documents
    /\ line_no = 0
    /\ current_chunk = <<>>
    /\ lists = <<[statute_numbers |-> <<>>, case_citations |-> <<>>]>>
    /\ current_metadata = 1
    /\ chunks = <<>>
    /\ returned = FALSE

\* document_chunker.py:195-258 -- one turn of the loop over the lines
chunk_line ==
    /\ ~returned
    /\ line_no < Len(lines)
    /\ line_no' = line_no + 1
    /\ LET line == lines[line_no + 1]
       IN  IF IsSectionBreak(line)
             THEN /\ chunks' = IF current_chunk # <<>> THEN Emit(current_chunk) ELSE chunks
                  /\ current_chunk' = AddLine(<<>>, line)
                  /\ lists' = Append(lists, NewLists(line))
                  /\ current_metadata' = Len(lists) + 1
             ELSE LET added == AddLine(current_chunk, line)
                      pieces == Len(added)
                      overlap_text == IF Len(added[pieces]) < chunk_overlap
                                        THEN <<added[pieces]>> ELSE <<>>
                  IN  /\ lists' = [lists EXCEPT
                                     ![current_metadata].statute_numbers =
                                         @ \o extract_statute_numbers(line),
                                     ![current_metadata].case_citations =
                                         @ \o extract_case_citations(line)]
                      /\ UNCHANGED current_metadata
                      /\ IF Size(added) > chunk_size
                           THEN IF pieces > 1
                                  THEN /\ chunks' = Emit(SubSeq(added, 1, pieces - 1))
                                       /\ current_chunk' = AddLine(overlap_text, line)
                                  ELSE /\ chunks' = Emit(added)
                                       /\ current_chunk' = AddLine(<<>>, line)
                           ELSE /\ current_chunk' = added
                                /\ UNCHANGED chunks
    /\ UNCHANGED <<lines, returned, besidesChunk>>

\* document_chunker.py:260-268 -- the final chunk, and the return
chunk_return ==
    /\ ~returned
    /\ line_no = Len(lines)
    /\ chunks' = IF current_chunk # <<>> THEN Emit(current_chunk) ELSE chunks
    /\ returned' = TRUE
    /\ UNCHANGED <<lines, line_no, current_chunk, current_metadata, lists, besidesChunk>>

NextChunk == chunk_line \/ chunk_return

SpecChunk == InitChunk /\ [][NextChunk]_vars

\* --------------------------------------------------- the cross-reference system
\* Similarity scores, in hundredths; threshold is find_cross_references'
\* default (cross_reference_system.py:219)
Similarities == {20, 30, 50}

\* cross_reference_system.py:225-229, 238-247 -- what the search of the vector
\* database returns to find_cross_references, with the similarity
\* calculate_similarity_score gives each result: per document id found
SearchAnswers == UNION {[found -> Similarities] : found \in SUBSET Docs}

\* cross_reference_system.py:238-263 -- cross_refs: the results other than the
\* document itself with a similarity of at least the threshold
CrossRefs(document_id, results) ==
    {d \in DOMAIN results : d # document_id /\ results[d] >= threshold}

\* d[key] = value on a dict
SetItem(d, key, value) ==
    [k \in DOMAIN d \cup {key} |-> IF k = key THEN value ELSE d[k]]

\* cross_reference_system.py:272-277 -- self.relationship_graph[document_id][
\* ref] = {...} for each ref in cross_refs; the graph is a defaultdict(dict)
UpdateGraph(graph, document_id, refs, results) ==
    IF refs = {} THEN graph
    ELSE LET old == Get(graph, document_id, EmptyDict)
         IN  SetItem(graph, document_id,
                     [k \in DOMAIN old \cup refs |->
                         IF k \in refs THEN results[k] ELSE old[k]])

\* cross_reference_system.py:219-279 find_cross_references; a search that
\* raises returns [] and changes nothing (:231-233)
find_cross_references(document_id) ==
    /\ \/ UNCHANGED <<cross_references, relationship_graph>>
       \/ \E results \in SearchAnswers :
            LET refs == CrossRefs(document_id, results)
            IN  /\ cross_references' = SetItem(cross_references, document_id, refs)
                /\ relationship_graph' =
                       UpdateGraph(relationship_graph, document_id, refs, results)
    /\ UNCHANGED <<related, storage, fresh, besidesXref>>

\* cross_reference_system.py:286-295 -- the ids get_related_documents reports
\* for a document, from the mappings given
RelatedIds(refs, graph, document_id) ==
    IF document_id \notin DOMAIN refs THEN {}
    ELSE {related_id \in refs[document_id] :
             related_id \in DOMAIN Get(graph, document_id, EmptyDict)}

\* cross_reference_system.py:297-299 -- the list sorted by similarity, of a set
\* iterated in any order, and cut to max_results
SortedLists(ids, graph, document_id) ==
    {order \in [1..Cardinality(ids) -> ids] :
        /\ \A i, j \in DOMAIN order : i # j => order[i] # order[j]
        /\ \A i, j \in DOMAIN order :
             i < j => graph[document_id][order[i]] >= graph[document_id][order[j]]}

\* cross_reference_system.py:281-299 get_related_documents; reading
\* self.relationship_graph[document_id] (:288) makes the entry if there is none
get_related_documents(document_id) ==
    LET ids == RelatedIds(cross_references, relationship_graph, document_id)
    IN  /\ \E order \in SortedLists(ids, relationship_graph, document_id) :
             related' = [document_id |-> document_id,
                         docs |-> [i \in 1..Min(max_results, Len(order)) |->
                                      [document_id |-> order[i],
                                       similarity_score |->
                                           relationship_graph[document_id][order[i]]]]]
        /\ relationship_graph' =
               IF /\ document_id \in DOMAIN cross_references
                  /\ cross_references[document_id] # {}
                  /\ document_id \notin DOMAIN relationship_graph
                 THEN SetItem(relationship_graph, document_id, EmptyDict)
                 ELSE relationship_graph
        /\ UNCHANGED <<cross_references, storage, fresh, besidesXref>>

\* json.dump of data to the file opened with 'w' (cross_reference_system.py:
\* 73-80).  The values of cross_references are sets, which json cannot
\* encode: with an entry in cross_references the dump raises TypeError after
\* writing the text up to that entry's value, and the file is left with it.
json_dump(refs, graph) ==
    IF DOMAIN refs # {}
      THEN [exists |-> TRUE, complete |-> FALSE,
            cross_references |-> EmptyDict, relationship_graph |-> EmptyDict]
      ELSE [exists |-> TRUE, complete |-> TRUE,
            cross_references |-> refs, relationship_graph |-> graph]

\* cross_reference_system.py:58-69 _load_cross_references: what a new
\* instance holds after loading the file; a file that is not there is
\* skipped, and one that is not JSON raises in json.load, which is caught
load_cross_references(file) ==
    IF file.exists /\ file.complete
      THEN [cross_references |-> file.cross_references,
            relationship_graph |-> file.relationship_graph]
      ELSE [cross_references |-> EmptyDict, relationship_graph |-> EmptyDict]

\* cross_reference_system.py:436-455 update_cross_references, with
\* _save_cross_references (:71-83)
update_cross_references ==
    /\ storage' = json_dump(cross_references, relationship_graph)
    /\ UNCHANGED <<cross_references, relationship_graph, related, fresh, besidesXref>>

\* cross_reference_system.py:50-56 CrossReferenceSystem.__init__ of a new
\* instance
new_instance ==
    /\ fresh' = [loaded |-> TRUE,
                 cross_references |-> load_cross_references(storage).cross_references,
                 relationship_graph |-> load_cross_references(storage).relationship_graph]
    /\ UNCHANGED <<cross_references, relationship_graph, related, storage, besidesXref>>

NextXref ==
    \/ \E d \in Docs : find_cross_references(d)
    \/ \E d \in Docs : get_related_documents(d)
    \/ update_cross_references
    \/ new_instance

SpecXref == Init /\ [][NextXref]_vars

\* ------------------------------------------------ constructing processors
\* document_processor.py:78 -- the arguments DocumentProcessor is called with
OutputDirs == {"processed_documents", "test_output", "tmp"}

ProcessorArgs ==
    [output_dir : OutputDirs, chunk_size : {500, 1000}, use_vector_db : BOOLEAN]

\* document_processor.py:72-145 -- DocumentProcessor(**args): __new__ makes the
\* instance if the class has none and returns the class's instance; __init__
\* returns at once if the instance is initialized, and otherwise sets its
\* attributes and makes its directory.  The call returns the instance.
DocumentProcessor(args) ==
    /\ constructed' = [done |-> TRUE, output_dir |-> args.output_dir,
                       chunk_size |-> args.chunk_size,
                       use_vector_db |-> args.use_vector_db]
    /\ IF processor.instance /\ processor.initialized
         THEN UNCHANGED <<processor, directories>>
         ELSE /\ processor' = [instance |-> TRUE, initialized |-> TRUE,
                               output_dir |-> args.output_dir,
                               chunk_size |-> args.chunk_size,
                               use_vector_db |-> args.use_vector_db]
              /\ directories' = directories \cup {args.output_dir}
    /\ UNCHANGED besidesProcessor

NextProcessor == \E args \in ProcessorArgs : DocumentProcessor(args)

SpecProcessor == Init /\ [][NextProcessor]_vars

\* -------------------------------------------------------- listing the tasks
ListIdle == [pc |-> "idle", size |-> 0, last |-> 0, task_list |-> <<>>]

\* app.py:596-597 list_tasks up to its loop: the iterator of
\* background_tasks.items() remembers the size of the dict
list_tasks ==
    /\ listing.pc = "idle"
    /\ listing' = [ListIdle EXCEPT !.pc = "l597", !.size = Cardinality(background_tasks)]
    /\ UNCHANGED besidesList

\* task_list.sort(key=created_at, reverse=True) (app.py:610): uploads are made
\* in the order of their ids, so the newest task has the greatest id
RECURSIVE SortNewestFirst(_)
SortNewestFirst(task_list) ==
    IF task_list = <<>> THEN <<>>
    ELSE LET newest == CHOOSE i \in DOMAIN task_list :
                           \A j \in DOMAIN task_list :
                               task_list[j].task_id <= task_list[i].task_id
         IN  <<task_list[newest]>>
               \o SortNewestFirst(SelectSeq(task_list,
                                            LAMBDA x : x.task_id # task_list[newest].task_id))

\* app.py:597-607 -- one turn of the loop: the iterator raises RuntimeError if
\* the dict has changed size; otherwise it gives the next key in insertion
\* order and the fields of its record are appended; after the last key the
\* list is sorted (:610)
list_next ==
    /\ listing.pc = "l597"
    /\ IF Cardinality(background_tasks) # listing.size
         THEN listing' = [ListIdle EXCEPT !.pc = "raised"]
         ELSE LET rest == {k \in background_tasks : k > listing.last}
              IN  IF rest # {}
                    THEN LET task_id == CHOOSE k \in rest : \A j \in rest : k <= j
                         IN  listing' =
                                 [listing EXCEPT
                                    !.last = task_id,
                                    !.task_list =
                                        Append(@, [task_id |-> task_id,
                                                   status |-> rec[task_id].status])]
                    ELSE listing' =
                             [listing EXCEPT !.pc = "l612",
                                             !.task_list = SortNewestFirst(@)]
    /\ UNCHANGED besidesList

\* app.py:612-615 -- the response is sent (or the error response of the
\* request that raised)
list_respond ==
    /\ listing.pc \in {"l612", "raised"}
    /\ listing' = ListIdle
    /\ UNCHANGED besidesList

NextList ==
    \/ Next
    \/ list_tasks
    \/ list_next
    \/ list_respond

SpecList == Init /\ [][NextList]_vars

\* ===================================================================
\* Properties
\* ===================================================================
Terminal == {"completed", "failed"}

Deleted(t) == pc[t] # "none" /\ t \notin background_tasks

NoVectors(t) == VectorsOf(DocOf(t)) = {}

\* C1: while a task's record is in the table its status changes only by
\* uploaded -> processing, processing -> completed or processing -> failed,
\* so a completed or failed task never changes status again; this under
\* every interleaving of uploads, worker steps, status reads and deletions.
StatusSteps == {<<"uploaded", "processing">>, <<"processing", "completed">>,
                <<"processing", "failed">>}

C1_StatusStepsOnly ==
    [][\A t \in Tasks :
          (t \in background_tasks /\ t \in background_tasks')
            => \/ rec'[t].status = rec[t].status
               \/ <<rec[t].status, rec'[t].status>> \in StatusSteps]_vars

\* C1 witness: one task completed and another failed, both still in the table
C1_Witness ==
    \E t, u \in Tasks :
        /\ {t, u} \subseteq background_tasks
        /\ rec[t].status = "completed" /\ pc[t] = "done"
        /\ rec[u].status = "failed" /\ pc[u] = "done"

C3_ReportedTerminalFileGone ==
    (rd.pc = "l590" /\ rd.status \in Terminal) => rd.task \notin tempfile

BeforeProcessing == {"l128", "l129", "l130"}
NeverProcessing == BeforeProcessing \cup HandlerPcs \cup {"l171", "done"}

C6_ReadIsSnapshot ==
    rd.pc = "l590" =>
        /\ rd.status = "processing" => rd.progress = 10
        /\ rd.status = "completed" => (rd.progress = 100 /\ rd.result # NoResult)
        /\ rd.status = "failed" => (rd.progress = 0 /\ rd.error # None)

\* C7: a task whose text extraction failed or gave empty text, or whose text
\* gave no chunks (in each case process_document has zero chunks), ends
\* failed and nothing of it is upserted.
C7_NoChunksEndsFailed ==
    \A t \in Tasks :
        (pc[t] = "done" /\ t \in background_tasks
            /\ result[t].returned /\ result[t].chunk_count = 0)
          => (rec[t].status = "failed" /\ NoVectors(t))

\* C8: a task whose embedding or upsert failed ends failed, and its temporary
\* file is deleted.
C8_IndexFailureEndsFailed ==
    \A t \in Tasks :
        (pc[t] = "done" /\ t \in background_tasks /\ result[t].indexed = "failed")
          => (rec[t].status = "failed" /\ t \notin tempfile)

\* C9: indexing is all-or-nothing: when index_document_chunks returns False
\* after failing on one of its upsert batches, for a document of which the
\* index held nothing when the call began, the index holds none of that
\* document's vectors.
C9_IndexingAllOrNothing ==
    [][\A c \in Callers :
          (call[c] # NoCall /\ call[c].fresh /\ call'[c] = NoCall
              /\ latest'[call[c].doc].state = "failed")
            => {v \in index' : v.document_id = call[c].doc} = {}]_vars

\* C10: between calls, the vectors the index holds for a document whose latest
\* ingestion succeeded with n chunks (no ingestion of it having failed) are
\* exactly that ingestion's chunks 0..n-1, and a deleted document has none.
C10_IndexHoldsLatestIngestion ==
    \A d \in Docs :
        call[DirectCaller] = NoCall =>
            /\ (latest[d].state = "ok" /\ latest[d].clean) =>
                 VectorsOf(d) = {Vector(d, i, latest[d].n) : i \in 0..(latest[d].n - 1)}
            /\ latest[d].state = "deleted" => VectorsOf(d) = {}

\* ------------------------------------------------------------ the chatbot
\* A request thread has returned from ask() with a response
Returned(a) == ask[a].pc = "idle" /\ ask[a].response # NoResponse

\* C11: whenever no call is in progress, the history is the last ten of the
\* exchanges appended so far, in the order they were appended: at most ten,
\* none of the most recent ones lost.
C11_HistoryIsLastTen ==
    (\A a \in Askers : ask[a].pc = "idle") =>
        conversation_history = LastN([i \in 1..answered |-> i], history_limit)

\* C12: the events of a streaming answer, as ask_streaming yields them and as
\* generate_stream sends them: a complete or error event is the last event, so
\* there is at most one and no content follows it; a run consumed to the end
\* has one; and once the caller has closed the stream no event is added.
TerminalIsLast(events) ==
    \A i \in 1..Len(events) : events[i] \in TerminalTypes => i = Len(events)

EndsWithTerminal(events) ==
    events # <<>> /\ events[Len(events)] \in TerminalTypes

C13_LlmFailureEmptyAnswer ==
    \A a \in Askers :
        (Returned(a) /\ ask[a].prompt # NoPrompt /\ ask[a].response.error # None) =>
            /\ ask[a].response.answer = <<>>
            /\ ask[a].response.confidence_score = 0
            /\ ask[a].response.low_confidence_warning
            /\ ask[a].response.error = LlmError

\* C13 (amended): the response of a call whose LLM invocation failed has, as
\* its answer, the apology sentence followed by the error text (never an empty
\* answer), confidence 0, the low-confidence flag set and the error text in
\* its error field; and the exchange is not added to the history.
C13_LlmFailureApology ==
    [][\A a \in Askers :
          (ask[a].pc = "l552" /\ ask'[a].pc = "idle") =>
              /\ ask'[a].response.answer = Apology(LlmError)
              /\ ask'[a].response.answer # <<>>
              /\ ask'[a].response.confidence_score = 0
              /\ ask'[a].response.low_confidence_warning
              /\ ask'[a].response.error = LlmError
              /\ conversation_history' = conversation_history]_vars

\* C13 witness: a call has returned the response of a failed LLM invocation
C13_Witness ==
    \E a \in Askers :
        Returned(a) /\ ask[a].prompt # NoPrompt /\ ask[a].response.error = LlmError

\* C14: a call whose vector-index query failed fails as a whole: the LLM is
\* not invoked and the response is an error response.
C14_QueryFailureIsFatal ==
    \A a \in Askers :
        ask[a].retrieval = "query_failed" =>
            /\ ask[a].prompt = NoPrompt
            /\ Returned(a) => ask[a].response.error # None

\* C20 (as claimed): a prompt built from the general or the citation template
\* contains no history messages.
C20_HistoryOnlyInFollowUp ==
    \A a \in Askers :
        (ask[a].prompt # NoPrompt /\ ask[a].prompt_type \in {"legal_qa", "citation_summary"})
            => HistoryIn(ask[a].prompt) = <<>>

\* C20 (amended): whichever template is selected, the prompt contains the
\* messages of the last six exchanges of the history as it was when the call
\* built its chat history.
C20_HistoryInEveryPrompt ==
    [][\A a \in Askers :
          /\ (ask[a].pc = "idle" /\ ask'[a].pc = "l544")
               => ask'[a].chat_history
                    = build_chat_history(LastN(conversation_history, history_in_prompt))
          /\ (ask[a].pc = "l552" /\ ask'[a].pc # "l552")
               => HistoryIn(ask'[a].prompt) = ask[a].chat_history]_vars

\* C20 witness: a prompt of the general template and one of the citation
\* template have each carried history messages
C20_Witness ==
    \E a, b \in Askers :
        /\ ask[a].prompt_type = "legal_qa" /\ HistoryIn(ask[a].prompt) # <<>>
        /\ ask[b].prompt_type = "citation_summary" /\ HistoryIn(ask[b].prompt) # <<>>

\* C15: a hybrid search returns at most max_results results, best final score
\* first, and of two results with the same final score the one with the higher
\* semantic score comes first and, the semantic scores being equal too, the
\* one with the smaller chunk id.
C15_SortedWithTieBreak ==
    (search_out.done /\ ~search_out.raised) =>
        LET r == search_out.results
        IN  /\ Len(r) <= search_in.max_results
            /\ \A i, j \in 1..Len(r) :
                 i < j =>
                   /\ r[i].score >= r[j].score
                   /\ r[i].score = r[j].score =>
                        \/ r[i].relevance_factors.semantic_score
                             > r[j].relevance_factors.semantic_score
                        \/ /\ r[i].relevance_factors.semantic_score
                                = r[j].relevance_factors.semantic_score
                           /\ r[i].id < r[j].id

\* C16: the final score of every result a hybrid search returns is between 0
\* and 1 and is the weighted sum 0.40, 0.30, 0.15, 0.10, 0.05 of the result's
\* own semantic, keyword, jurisdiction, law-status and document-type factors.
C16_FinalScoreInUnitInterval ==
    search_out.done =>
        \A i \in 1..Len(search_out.results) :
            LET r == search_out.results[i]
                f == r.relevance_factors
            IN  /\ 0 <= r.score /\ r.score <= FinalOne
                /\ r.score = 40 * f.semantic_score + 30 * f.keyword_score
                               + 15 * f.jurisdiction_score + 10 * f.law_status_score
                               + 5 * f.document_type_score

\* C17: the confidence computed for a response is between 0 and 1.
C17_ConfidenceInUnitInterval ==
    confidence_score.done =>
        (0 <= confidence_score.value /\ confidence_score.value <= ConfidenceOne)

\* C18: the confidence is the top score (at most 1) times the result-count
\* factor, times 1.05 exactly when the breakdown's average semantic factor
\* exceeds 0.8, times 1.05 exactly when its keyword factor exceeds 0.8, times
\* 0.90 only when the breakdown has a citation factor below 0.5; capped at 1.
C18_AdjustmentsFollowBreakdown ==
    confidence_score.done =>
        LET r == rag_response
            bd == r.relevance_breakdown
            count == IF r.total_results >= 5 THEN 11
                     ELSE IF r.total_results < 2 THEN 8 ELSE 10
            semantic == IF Get(bd, "semantic_score", 0) > 80 THEN 21 ELSE 20
            keyword == IF Get(bd, "keyword_score", 0) > 80 THEN 21 ELSE 20
            citation == IF \E key \in DOMAIN bd \cap {"citation_score", "citation_relevance"} :
                              bd[key] < 50
                          THEN 9 ELSE 10
        IN  confidence_score.value
              = Min(Min(r.top_score, FinalOne) * count * semantic * keyword * citation,
                    ConfidenceOne)

\* C19: the context string built from a list of ranked results, separators,
\* ellipsis and Related Citations block included, is at most
\* max_context_length characters long.
C19_ContextWithinLimit ==
    context_window.done => context_window.length <= max_context_length

\* C21: the prompt template chosen for a question is the citation template if
\* the question contains a citation keyword; otherwise the follow-up template
\* if and only if the history is not empty and the question opens with (not
\* merely contains) a follow-up word; otherwise the general template.
C21_FollowUpOpensQuestion ==
    prompt_out.done =>
        LET question_lower == Lower(prompt_in.question)
            cites == \E keyword \in Range(citation_keywords) : In(keyword, question_lower)
            opens == \E keyword \in Range(follow_up_keywords) :
                         StartsWith(question_lower, keyword)
        IN  prompt_out.prompt_type =
                IF cites THEN "citation_summary"
                ELSE IF prompt_in.history # <<>> /\ opens THEN "follow_up"
                ELSE "legal_qa"

\* C22: the potentially-outdated flag of a response is true if and only if at
\* least one of the search results carries a date of a year more than ten
\* years before the current year.
C22_OutdatedIffOldDate ==
    outdated_out.done =>
        (outdated_out.outdated <=>
            \E i \in 1..Len(outdated_in.search_results) :
                \E year \in outdated_in.search_results[i].metadata.dates :
                    outdated_in.current_year - year > 10)

\* C23: after an upload task completes, every vector indexed for it carries in
\* its metadata the original file name and the document type, jurisdiction
\* and law status the uploader supplied at submit.
C23_VectorsCarryUploadFields ==
    task.status = "completed" =>
        \A i \in 1..Len(vectors) :
            LET m == vectors[i].metadata
            IN  /\ "file_name" \in DOMAIN m
                /\ m.file_name \in {<<submitted.filename>>,
                                    <<secure_filename(submitted.filename)>>}
                /\ \A key \in DOMAIN submitted.form :
                     key \in DOMAIN m /\ m[key] = submitted.form[key]

\* C24: query enhancement is idempotent: enhancing an enhanced query returns
\* the same text.
C24_EnhanceIdempotent ==
    Len(enhanced) = 2 => enhanced[2] = enhanced[1]

\* C25: the detected document type is the type with the highest score when
\* that score is not zero, of several with that score the first of case_law,
\* policy, training; and general when every type scores zero.
C25_HighestScoreOrGeneral ==
    detected.done =>
        LET score(k) == TypeScore(k, text_content)
            top == Max(score(1), Max(score(2), score(3)))
        IN  detected.document_type =
                IF top = 0 THEN "general"
                ELSE IF score(1) = top THEN "case_law"
                ELSE IF score(2) = top THEN "policy"
                ELSE "training"

\* C26: every statute number and every case citation in the metadata of an
\* emitted chunk is a substring of that chunk's own content, at the time the
\* chunk is emitted and after later chunks are emitted.
C26_MetadataWithinContent ==
    \A k \in 1..Len(chunks) :
        LET m == lists[chunks[k].metadata]
        IN  Range(m.statute_numbers) \cup Range(m.case_citations)
                \subseteq SentencesOf(chunks[k].content)

\* C27: after any sequence of find_cross_references calls the cross-reference
\* graph is undirected: if A is recorded as related to B with some similarity,
\* then B is recorded as related to A with the same similarity, and
\* get_related_documents(B) includes A.
C27_GraphUndirected ==
    \A a \in DOMAIN cross_references :
        \A b \in cross_references[a] :
            /\ b \in DOMAIN cross_references
            /\ a \in cross_references[b]
            /\ relationship_graph[b][a] = relationship_graph[a][b]
            /\ a \in RelatedIds(cross_references, relationship_graph, b)

\* C28: saving the cross-references leaves a file that is whole, and from which
\* a fresh instance loads the cross_references and the relationship_graph that
\* were saved.
C28_SaveThenLoad ==
    [][update_cross_references =>
          /\ storage'.exists /\ storage'.complete
          /\ load_cross_references(storage') =
                 [cross_references |-> cross_references,
                  relationship_graph |-> relationship_graph]]_vars

\* C29: every construction DocumentProcessor(output_dir=X) returns a processor
\* whose output_dir is X, also when a processor was constructed before with
\* another directory.
C29_OutputDirAsRequested ==
    constructed.done => processor.output_dir = constructed.output_dir

\* C30: once a task's record is deleted, no later step of its worker, which
\* may still be running, makes or changes a record under that id: the id is
\* never in the task table again, the record object is written no more, and
\* no turn of a task listing adds the id to its list.
ListedIds(task_list) == {task_list[i].task_id : i \in DOMAIN task_list}

====
